---------------------------- MODULE Spec2Model ----------------------------
(***************************************************************************)
(* Model of the Cetus liquidity rebalance bot: the retry executors         *)
(* (retryTransaction, retryWithBackoff), the rebalance engine              *)
(* (RebalanceService.checkAndRebalance / rebalancePosition / addLiquidity  *)
(* / removeLiquidity), the scheduler (CetusRebalanceBot), the recovery and  *)
(* fallback paths of one addLiquidity call, the amount computation, the    *)
(* balancing-swap step, the range functions of the monitor and successive  *)
(* cycles of one service.                                                  *)
(***************************************************************************)
EXTENDS Integers, Sequences, FiniteSets, TLC

VARIABLES
    \* ---- retry executors (one call of retryTransaction / retryWithBackoff)
    rtKind,         \* which executor runs: "retryTransaction" | "retryWithBackoff"
    rtMaxRetries,   \* the maxRetries argument
    rtInitialDelay, \* the initialDelayMs argument
    rtAttempt,      \* the loop variable `attempt`
    rtPc,           \* "loop" | "call" | "returned" | "thrown"
    rtCalls,        \* how many times operation() has been invoked
    rtSleeps,       \* the delays slept so far, in order
    rtLastFail,     \* the value thrown by the latest failed invocation
    rtLastError,    \* the local `lastError`
    rtThrown,       \* the value that left the executor
    \* ---- the chain and the wallet (collaborators of the engine)
    tick,           \* the pool's current tick index
    chain,          \* position id -> the owner's position object (or absent)
    balA,           \* wallet balance of the pool's coin A
    balB,           \* wallet balance of the pool's coin B
    \* ---- RebalanceService
    config,         \* the BotConfig (and DRY_RUN) the service was built with
    trackedPositionId, \* this.trackedPositionId (0 = null)
    pc,             \* where the running call is
    entry,          \* which public method the caller invoked
    loc,            \* the locals of the running call
    obs,            \* what the running call has done so far (transactions, steps)
    result,         \* how the latest call ended
    cycles,         \* number of calls started
    \* ---- CetusRebalanceBot (the scheduler)
    isRunning,      \* this.isRunning
    intervalId,     \* this.intervalId (0 = undefined)
    timers,         \* the interval timers that are armed
    startPc,        \* where the running start() call is
    checks,         \* the performCheck calls: slot -> where the call is
    botCalls,       \* number of start() and stop() calls made
    \* ---- one addLiquidity call with its recovery and fallback paths
    al,             \* the call: where it is, its flags, what it has submitted
    \* ---- one evaluation of the amount computation of addLiquidity
    cr,             \* the inputs and, once computed, the proposed amounts
    \* ---- one pass through the balancing-swap step of addLiquidity
    sw,             \* the proposed amounts, the decision, the amounts after the swap
    \* ---- one evaluation of a range function of PositionMonitorService
    rg,             \* the inputs and, once computed, the answer
    \* ---- successive cycles of one RebalanceService
    cy              \* what the previous cycle did, as the next one starts

retryVars == <<rtKind, rtMaxRetries, rtInitialDelay, rtAttempt, rtPc, rtCalls,
               rtSleeps, rtLastFail, rtLastError, rtThrown>>

chainVars == <<tick, chain, balA, balB>>

engineVars == <<config, trackedPositionId, pc, entry, loc, obs, result, cycles>>

botVars == <<isRunning, intervalId, timers, startPc, checks, botCalls>>

addVars == <<al>>

amountVars == <<cr>>

swapVars == <<sw>>

rangeVars == <<rg>>

cycleVars == <<cy>>

vars == <<retryVars, chainVars, engineVars, botVars, addVars, amountVars, swapVars,
          rangeVars, cycleVars>>

\* What an action of one machine leaves alone: the other machines.
retryRest == <<chainVars, engineVars, botVars, addVars, amountVars, swapVars, rangeVars,
               cycleVars>>
engineRest == <<retryVars, botVars, addVars, amountVars, swapVars, rangeVars, cycleVars>>
botRest == <<retryVars, chainVars, engineVars, addVars, amountVars, swapVars, rangeVars,
             cycleVars>>
addRest == <<retryVars, chainVars, engineVars, botVars, amountVars, swapVars, rangeVars,
             cycleVars>>
amountRest == <<retryVars, chainVars, engineVars, botVars, addVars, swapVars, rangeVars,
                cycleVars>>
swapRest == <<retryVars, chainVars, engineVars, botVars, addVars, amountVars, rangeVars,
              cycleVars>>
\* What the start of a further cycle leaves alone.
cyclesRest == <<retryVars, botVars, addVars, amountVars, swapVars, rangeVars>>
rangeRest == <<retryVars, chainVars, engineVars, botVars, addVars, amountVars, swapVars,
               cycleVars>>

-----------------------------------------------------------------------------
(* Error messages.  A message is the sequence of its words; String.includes *)
(* is containment of a contiguous run of words.                             *)

MsgEconnreset == <<"read", "ECONNRESET">>
MsgEtimedout == <<"connect", "ETIMEDOUT">>
MsgFetchFailed == <<"fetch", "failed">>
MsgStaleObject == <<"Object", "ID", "0x58", "Version", "0x2e", "Digest", "9z", "is", "not",
                    "available", "for", "consumption,", "current", "version:", "0x2f">>
MsgNotAvailable == <<"Object", "is", "not", "available", "for", "consumption">>
MsgPendingTx == <<"Input", "0xb8", "has", "a", "transaction", "3", "seconds", "old",
                  "pending,", "above", "threshold", "of", "1", "seconds">>
MsgInsufficientBalance == <<"Insufficient", "balance">>
MsgInvalidTickRange == <<"Invalid", "tick", "range">>
MsgPoolNotFound == <<"Pool", "not", "found:", "0x123">>
MsgTxFailed == <<"Transaction", "failed:", "Unknown", "error">>

Messages == {MsgEconnreset, MsgEtimedout, MsgFetchFailed, MsgStaleObject, MsgNotAvailable,
             MsgPendingTx, MsgInsufficientBalance, MsgInvalidTickRange, MsgPoolNotFound,
             MsgTxFailed}

NoError == [isError |-> FALSE, wrapped |-> FALSE, msg |-> <<>>]

\* A thrown value: an Error object, or any other value (a string, an object).
ThrownValues == [isError : BOOLEAN, wrapped : {FALSE}, msg : Messages]

includes(msg, pat) ==
    \E i \in 1..(Len(msg) - Len(pat) + 1) : SubSeq(msg, i, i + Len(pat) - 1) = pat

\* String.toLowerCase, word by word.
toLowerCaseWord(w) ==
    CASE w = "ECONNRESET" -> "econnreset"
      [] w = "ETIMEDOUT" -> "etimedout"
      [] w = "ECONNREFUSED" -> "econnrefused"
      [] w = "ENOTFOUND" -> "enotfound"
      [] w = "EAI_AGAIN" -> "eai_again"
      [] w = "EHOSTUNREACH" -> "ehostunreach"
      [] w = "EPIPE" -> "epipe"
      [] w = "Object" -> "object"
      [] w = "ID" -> "id"
      [] w = "Version" -> "version"
      [] w = "Digest" -> "digest"
      [] w = "Input" -> "input"
      [] w = "Insufficient" -> "insufficient"
      [] w = "Invalid" -> "invalid"
      [] w = "Pool" -> "pool"
      [] w = "Transaction" -> "transaction"
      [] w = "Unknown" -> "unknown"
      [] OTHER -> w

toLowerCase(msg) == [i \in 1..Len(msg) |-> toLowerCaseWord(msg[i])]

NetworkPatterns ==
    {<<"fetch">>, <<"network">>, <<"ECONNREFUSED">>, <<"ECONNRESET">>, <<"ETIMEDOUT">>,
     <<"ENOTFOUND">>, <<"timeout">>, <<"socket", "hang", "up">>, <<"EAI_AGAIN">>,
     <<"EHOSTUNREACH">>, <<"EPIPE">>, <<"request", "to">>, <<"getaddrinfo">>}

isNetworkError(message) ==
    LET lower == toLowerCase(message)
    IN  \E p \in NetworkPatterns : includes(lower, toLowerCase(p))

isStaleObject(errorMsg) ==
    \/ includes(errorMsg, <<"is", "not", "available", "for", "consumption">>)
    \/ includes(errorMsg, <<"is", "not", "available", "for", "consumption,">>)
    \/ (includes(errorMsg, <<"Version">>) /\ includes(errorMsg, <<"Digest">>))
    \/ includes(errorMsg, <<"current", "version:">>)

isPendingTx(errorMsg) ==
    \/ ((includes(errorMsg, <<"pending">>) \/ includes(errorMsg, <<"pending,">>))
        /\ includes(errorMsg, <<"seconds", "old">>))
    \/ ((includes(errorMsg, <<"pending">>) \/ includes(errorMsg, <<"pending,">>))
        /\ includes(errorMsg, <<"above", "threshold">>))

\* Variant of TxRetryable that also retries what isNetworkError accepts.
TxRetryableOrNetwork(errorMsg) ==
    isStaleObject(errorMsg) \/ isPendingTx(errorMsg) \/ isNetworkError(errorMsg)

\* retryTransaction: `if (!isStaleObject && !isPendingTx) throw error`
TxRetryable(errorMsg) == isStaleObject(errorMsg) \/ isPendingTx(errorMsg)

\* Which failures an executor retries.
Retryable(kind, errorMsg) ==
    IF kind = "retryTransaction" THEN TxRetryable(errorMsg) ELSE isNetworkError(errorMsg)

\* The loop condition: `attempt < maxRetries` in retryTransaction,
\* `attempt <= maxRetries` in retryWithBackoff.
LoopCondition(kind, attempt, maxRetries) ==
    IF kind = "retryTransaction" THEN attempt < maxRetries ELSE attempt <= maxRetries

Pow2(n) == IF n <= 0 THEN 1 ELSE IF n = 1 THEN 2 ELSE IF n = 2 THEN 4 ELSE IF n = 3 THEN 8 ELSE 16

\* `initialDelayMs * Math.pow(2, attempt - 1)`
BackoffDelay(initialDelayMs, attempt) == initialDelayMs * Pow2(attempt - 1)

\* Variant of AsError that keeps no trace of the value caught: a generic error.
AsGenericError(e) ==
    [isError |-> TRUE, wrapped |-> TRUE, msg |-> <<"All", "retry", "attempts", "failed">>]

\* `lastError = error instanceof Error ? error : new Error(errorMsg)`
AsError(e) == IF e.isError THEN e ELSE [isError |-> TRUE, wrapped |-> TRUE, msg |-> e.msg]

-----------------------------------------------------------------------------
(* One call of a retry executor.                                            *)

MaxRetriesBound == 3
DefaultInitialDelayMs == 2000
TestInitialDelayMs == 10

RetryInit ==
    /\ rtKind \in {"retryTransaction", "retryWithBackoff"}
    /\ rtMaxRetries \in 1..MaxRetriesBound
    /\ rtInitialDelay \in {TestInitialDelayMs, DefaultInitialDelayMs}
    /\ rtAttempt = 0
    /\ rtPc = "loop"
    /\ rtCalls = 0
    /\ rtSleeps = <<>>
    /\ rtLastFail = NoError
    /\ rtLastError = NoError
    /\ rtThrown = NoError

\* Top of the loop body: the backoff sleep before a retry, then the call.
RetryIterate ==
    /\ rtPc = "loop"
    /\ LoopCondition(rtKind, rtAttempt, rtMaxRetries)
    /\ rtSleeps' = IF rtAttempt > 0
                   THEN Append(rtSleeps, BackoffDelay(rtInitialDelay, rtAttempt))
                   ELSE rtSleeps
    /\ rtPc' = "call"
    /\ UNCHANGED <<rtKind, rtMaxRetries, rtInitialDelay, rtAttempt, rtCalls,
                   rtLastFail, rtLastError, rtThrown>>
    /\ UNCHANGED retryRest

\* `return await operation()` when the operation succeeds.
RetryCallOk ==
    /\ rtPc = "call"
    /\ rtCalls' = rtCalls + 1
    /\ rtPc' = "returned"
    /\ UNCHANGED <<rtKind, rtMaxRetries, rtInitialDelay, rtAttempt, rtSleeps,
                   rtLastFail, rtLastError, rtThrown>>
    /\ UNCHANGED retryRest

\* The operation throws a value the executor does not retry: `throw error`.
RetryCallFatal ==
    /\ rtPc = "call"
    /\ \E e \in ThrownValues :
        /\ ~Retryable(rtKind, e.msg)
        /\ rtCalls' = rtCalls + 1
        /\ rtLastFail' = e
        /\ rtLastError' = AsError(e)
        /\ rtThrown' = e
        /\ rtPc' = "thrown"
    /\ UNCHANGED <<rtKind, rtMaxRetries, rtInitialDelay, rtAttempt, rtSleeps>>
    /\ UNCHANGED retryRest

\* The operation throws a value the executor retries: next iteration.
RetryCallRetryable ==
    /\ rtPc = "call"
    /\ \E e \in ThrownValues :
        /\ Retryable(rtKind, e.msg)
        /\ rtCalls' = rtCalls + 1
        /\ rtLastFail' = e
        /\ rtLastError' = AsError(e)
        /\ rtAttempt' = rtAttempt + 1
        /\ rtPc' = "loop"
    /\ UNCHANGED <<rtKind, rtMaxRetries, rtInitialDelay, rtSleeps, rtThrown>>
    /\ UNCHANGED retryRest

\* After the loop: `throw lastError`.
RetryExhausted ==
    /\ rtPc = "loop"
    /\ ~LoopCondition(rtKind, rtAttempt, rtMaxRetries)
    /\ rtThrown' = rtLastError
    /\ rtPc' = "thrown"
    /\ UNCHANGED <<rtKind, rtMaxRetries, rtInitialDelay, rtAttempt, rtCalls, rtSleeps,
                   rtLastFail, rtLastError>>
    /\ UNCHANGED retryRest

RetryNext ==
    \/ RetryIterate
    \/ RetryCallOk
    \/ RetryCallFatal
    \/ RetryCallRetryable
    \/ RetryExhausted

-----------------------------------------------------------------------------
(* PositionMonitorService: the pure decisions.                              *)

Abs(x) == IF x < 0 THEN -x ELSE x
\* Variants: division that rounds toward zero; a ceiling that rounds down.
TruncatingDivision(x, y) == IF x >= 0 THEN x \div y ELSE -((-x) \div y)
CeilRoundedDown(x, y) == x \div y

Floor(x, y) == x \div y                  \* Math.floor(x / y), y > 0
Ceil(x, y) == -((-x) \div y)             \* Math.ceil(x / y), y > 0

\* config.rebalanceThreshold = 0.05, as the fraction ThresholdNum / ThresholdDen
ThresholdNum == 5
ThresholdDen == 100

isPositionInRange(tickLower, tickUpper, currentTick) ==
    currentTick >= tickLower /\ currentTick <= tickUpper

\* Variant: only a position that is out of range is flagged.
shouldRebalanceOutOfRangeOnly(position, currentTick) ==
    ~isPositionInRange(position.tickLower, position.tickUpper, currentTick)

shouldRebalance(position, currentTick) ==
    LET rangeWidth == position.tickUpper - position.tickLower
        distanceToLower == currentTick - position.tickLower
        distanceToUpper == position.tickUpper - currentTick
    IN  IF ~isPositionInRange(position.tickLower, position.tickUpper, currentTick)
        THEN TRUE
        ELSE \* percentageToLower < threshold || percentageToUpper < threshold
             \/ distanceToLower * ThresholdDen < ThresholdNum * rangeWidth
             \/ distanceToUpper * ThresholdDen < ThresholdNum * rangeWidth

\* Variant: the range centred on the tick, not aligned to the tick spacing.
calculateCentredRange(currentTick, tickSpacing, preserveRangeWidth, configRangeWidth) ==
    LET rangeWidth == IF preserveRangeWidth # 0 THEN preserveRangeWidth ELSE configRangeWidth
    IN  IF rangeWidth # 0
        THEN [lower |-> currentTick - Floor(rangeWidth, 2),
              upper |-> currentTick + Ceil(rangeWidth, 2)]
        ELSE [lower |-> currentTick, upper |-> currentTick + tickSpacing]

\* preserveRangeWidth = 0 stands for undefined (both are falsy in
\* `preserveRangeWidth || this.config.rangeWidth`).
calculateOptimalRange(currentTick, tickSpacing, preserveRangeWidth, configRangeWidth) ==
    LET rangeWidth == IF preserveRangeWidth # 0 THEN preserveRangeWidth ELSE configRangeWidth
        ticksBelow == Floor(rangeWidth, 2)
        ticksAbove == Ceil(rangeWidth, 2)
    IN  IF rangeWidth # 0
        THEN [lower |-> Floor(currentTick - ticksBelow, tickSpacing) * tickSpacing,
              upper |-> Ceil(currentTick + ticksAbove, tickSpacing) * tickSpacing]
        ELSE [lower |-> Floor(currentTick, tickSpacing) * tickSpacing,
              upper |-> Floor(currentTick, tickSpacing) * tickSpacing + tickSpacing]

-----------------------------------------------------------------------------
(* The chain: one pool of interest, the owner's positions, the wallet.      *)

TickSpacing == 2
TicksBelowZero == 1
MaxTick == 2
Ticks == (0 - TicksBelowZero)..MaxTick

MaxPositions == 4
PosIds == 1..MaxPositions
ThisPool == "pool"
OtherPool == "otherPool"

LiquidityMissing == -1       \* a position record without a liquidity value
GasCost == 1                 \* gas a transaction burns from the wallet's SUI

NoPosition == [exists |-> FALSE, poolAddress |-> ThisPool, tickLower |-> 0,
               tickUpper |-> 0, liquidity |-> 0]

Position(pool, lo, hi, liq) ==
    [exists |-> TRUE, poolAddress |-> pool, tickLower |-> lo, tickUpper |-> hi,
     liquidity |-> liq]

\* sdk.Position.getPositionList as mapped by getPositions: the owner's positions,
\* in a fixed order, each with its id.
RECURSIVE PositionList(_, _)
PositionList(ch, id) ==
    IF id > MaxPositions THEN <<>>
    ELSE (IF ch[id].exists
          THEN <<[positionId |-> id, poolAddress |-> ch[id].poolAddress,
                  tickLower |-> ch[id].tickLower, tickUpper |-> ch[id].tickUpper,
                  liquidity |-> ch[id].liquidity]>>
          ELSE <<>>) \o PositionList(ch, id + 1)

getPositions(ch) == PositionList(ch, 1)

\* Variant of FilterPool with the pool test dropped: every position passes.
FilterPoolAny(positions, poolAddress) == positions

\* `positions.filter(p => p.poolAddress === poolAddress)`
FilterPool(positions, poolAddress) ==
    SelectSeq(positions, LAMBDA p : p.poolAddress = poolAddress)

\* `BigInt(p.liquidity || '0')`
LiquidityOrZero(p) == IF p.liquidity = LiquidityMissing THEN 0 ELSE p.liquidity

\* Variant of HasLiquidity with the `> 0n` test dropped.
HasLiquidityField(p) == p.liquidity # LiquidityMissing

\* `liquidity != null && BigInt(liquidity) > 0n`
HasLiquidity(p) == p.liquidity # LiquidityMissing /\ p.liquidity > 0

\* Variant: the first position as listed, without the sort by liquidity.
FirstListed(positions) == positions[1]

\* First element after the (stable) sort by liquidity, largest first.
MostLiquid(positions) ==
    LET best == CHOOSE i \in 1..Len(positions) :
                    /\ \A j \in 1..Len(positions) :
                          LiquidityOrZero(positions[j]) <= LiquidityOrZero(positions[i])
                    /\ \A j \in 1..(i - 1) :
                          LiquidityOrZero(positions[j]) < LiquidityOrZero(positions[i])
    IN  positions[best]

\* Array.prototype.find: the first element that satisfies the test, or NotFound;
\* `matching` is the array's elements that satisfy the test, in the array's order.
NotFound == [positionId |-> 0, poolAddress |-> ThisPool, tickLower |-> 0,
             tickUpper |-> 0, liquidity |-> 0]

Find(matching) == IF matching = <<>> THEN NotFound ELSE Head(matching)

\* What removing `delta` liquidity pays out: all coin A below the range, all coin B
\* above it, both inside it.
RemovedTokens(p, delta, t) ==
    IF t <= p.tickLower THEN [a |-> delta, b |-> 0]
    ELSE IF t >= p.tickUpper THEN [a |-> 0, b |-> delta]
    ELSE [a |-> delta - (delta \div 2), b |-> delta \div 2]

\* Gas is paid in SUI: from balance A or B when that coin is SUI.
GasA(cfg) == IF cfg.isSuiA THEN GasCost ELSE 0
GasB(cfg) == IF cfg.isSuiB THEN GasCost ELSE 0
CanPayGas(cfg, a, b) == a >= GasA(cfg) /\ b >= GasB(cfg)

\* An add-liquidity deposit the pool accepts: the coins are in the wallet on top of
\* the gas, something is deposited, and a range that holds the current tick strictly
\* inside needs both coins.
AddFeasible(cfg, amountA, amountB, lo, hi, t, a, b) ==
    /\ amountA + GasA(cfg) <= a
    /\ amountB + GasB(cfg) <= b
    /\ amountA + amountB > 0
    /\ (lo < t /\ t < hi => amountA > 0 /\ amountB > 0)
    /\ (t <= lo => amountA > 0)
    /\ (t >= hi => amountB > 0)

\* What a deposit takes from the wallet: one coin only when the tick is at or
\* beyond a bound of the range.
AddConsumed(amountA, amountB, lo, hi, t) ==
    IF t <= lo THEN [a |-> amountA, b |-> 0]
    ELSE IF t >= hi THEN [a |-> 0, b |-> amountB]
    ELSE [a |-> amountA, b |-> amountB]

-----------------------------------------------------------------------------
(* RebalanceService: state of a call.                                       *)

MaxCycles == 1               \* calls of the public methods in one behaviour
GasReserve == 1              \* config.gasBudget, in units of the model's balances
SeedAmount == 1              \* a configured TOKEN_A_AMOUNT / TOKEN_B_AMOUNT
TxMaxRetries == 2            \* the maxRetries passed by removeLiquidity and addLiquidity
DefaultMinAmount == 1000     \* `defaultMinAmount = 1000n`

BaseConfig == [positionId |-> 0, dryRun |-> FALSE, tokenAAmount |-> 0, tokenBAmount |-> 0,
               rangeWidth |-> 0, isSuiA |-> FALSE, isSuiB |-> FALSE,
               gasBudget |-> GasReserve]

Configs ==
    {BaseConfig,
     [BaseConfig EXCEPT !.positionId = 1],
     [BaseConfig EXCEPT !.positionId = 2],
     [BaseConfig EXCEPT !.dryRun = TRUE],
     [BaseConfig EXCEPT !.tokenAAmount = SeedAmount, !.tokenBAmount = SeedAmount],
     [BaseConfig EXCEPT !.isSuiA = TRUE],
     [BaseConfig EXCEPT !.isSuiB = TRUE, !.positionId = 1]}

EmptyChain == [id \in PosIds |-> NoPosition]

\* The positions the owner holds when the service is built.
InitialChains ==
    {EmptyChain,
     [EmptyChain EXCEPT ![1] = Position(ThisPool, 0, 2, 3)],
     [EmptyChain EXCEPT ![1] = Position(ThisPool, 0, 2, 0)],
     [EmptyChain EXCEPT ![1] = Position(ThisPool, 0, 2, LiquidityMissing)],
     [EmptyChain EXCEPT ![1] = Position(OtherPool, 0, 2, 2)],
     [EmptyChain EXCEPT ![1] = Position(ThisPool, 0, 2, 2),
                        ![2] = Position(ThisPool, -2, 0, 1)],
     [EmptyChain EXCEPT ![1] = Position(ThisPool, 0, 2, 0),
                        ![2] = Position(ThisPool, -2, 0, 2)]}

InitialBalances == {<<0, 0>>, <<20, 10>>}

NoTx == [kind |-> "none", posId |-> 0, amountA |-> 0, amountB |-> 0, lower |-> 0,
         upper |-> 0, isOpen |-> FALSE, fixAmountA |-> FALSE, attempt |-> 0,
         deltaLiquidity |-> 0, freshLiquidity |-> 0, priceReadIn |-> 0, ok |-> FALSE]

NoLocals == [position |-> NotFound,
             lower |-> 0, upper |-> 0, removedAmountA |-> 0, removedAmountB |-> 0,
             existingPositionId |-> 0, balanceBeforeA |-> 0, balanceBeforeB |-> 0,
             attempt |-> 0, amountA |-> 0, amountB |-> 0]

NoObs == [kinds |-> {}, lastTx |-> NoTx, positionId |-> 0, readPoolEmpty |-> FALSE,
          removalSkipped |-> FALSE, addInvoked |-> FALSE, proposedA |-> 0,
          proposedB |-> 0, opened |-> 0, failures |-> {}]

\* The call submits a transaction.
Submit(o, tx) == [o EXCEPT !.kinds = @ \cup {tx.kind}, !.lastTx = tx]

NoResult == [kind |-> "none", success |-> FALSE, error |-> <<>>, hasDigest |-> FALSE,
             hasRanges |-> FALSE, oldLower |-> 0, oldUpper |-> 0, newLower |-> 0,
             newUpper |-> 0]

EngineInit ==
    /\ tick \in Ticks
    /\ chain \in InitialChains
    /\ \E w \in InitialBalances : balA = w[1] /\ balB = w[2]
    /\ config \in Configs
    /\ trackedPositionId = config.positionId      \* `config.positionId || null`
    /\ pc = "idle"
    /\ entry = "none"
    /\ loc = NoLocals
    /\ obs = NoObs
    /\ result = NoResult
    /\ cycles = 0

\* The other machines, at rest while one of them is explored.
EngineParked ==
    /\ tick = 0 /\ chain = EmptyChain /\ balA = 0 /\ balB = 0
    /\ config = BaseConfig /\ trackedPositionId = 0 /\ pc = "idle" /\ entry = "none"
    /\ loc = NoLocals /\ obs = NoObs /\ result = NoResult /\ cycles = 0

RetryParked ==
    /\ rtKind = "retryTransaction" /\ rtMaxRetries = 0 /\ rtInitialDelay = 0
    /\ rtAttempt = 0 /\ rtPc = "returned" /\ rtCalls = 0 /\ rtSleeps = <<>>
    /\ rtLastFail = NoError /\ rtLastError = NoError /\ rtThrown = NoError

\* The errors the collaborators raise.
ReadErrors == {[isError |-> TRUE, wrapped |-> FALSE, msg |-> MsgEtimedout]}
TxRetryableErrors == {[isError |-> TRUE, wrapped |-> FALSE, msg |-> MsgStaleObject]}
TxFatalErrors == {[isError |-> TRUE, wrapped |-> FALSE, msg |-> MsgInsufficientBalance],
                  [isError |-> FALSE, wrapped |-> FALSE, msg |-> MsgTxFailed]}

MsgUnknownError == <<"Unknown", "error">>
MsgNoExistingPosition == <<"No", "existing", "position", "to", "rebalance">>
MsgNoTokens == <<"No", "tokens", "available", "for", "rebalancing.">>
MsgInsufficientToAdd == <<"Insufficient", "token", "balance", "to", "add", "liquidity.">>

\* Variant of Failure: the catch rethrows instead of returning a result.
FailureRethrown(e) == [NoResult EXCEPT !.kind = "throw", !.error = e.msg]

\* `error instanceof Error ? error.message : 'Unknown error'`
ErrorText(e) == IF e.isError THEN e.msg ELSE MsgUnknownError

Failure(e) == [NoResult EXCEPT !.kind = "value", !.error = ErrorText(e)]
Thrown(e) == [NoResult EXCEPT !.kind = "throw", !.error = e.msg]
ReturnNull == [NoResult EXCEPT !.kind = "null"]
Success == [NoResult EXCEPT !.kind = "value", !.success = TRUE]
SuccessWithRanges(position, lower, upper, digest) ==
    [NoResult EXCEPT !.kind = "value", !.success = TRUE, !.hasDigest = digest,
                     !.hasRanges = TRUE, !.oldLower = position.tickLower,
                     !.oldUpper = position.tickUpper, !.newLower = lower,
                     !.newUpper = upper]

-----------------------------------------------------------------------------
(* The callers and the environment.                                         *)

\* The last call of the behaviour has returned: nothing more is explored.
Finished == pc = "idle" /\ cycles = MaxCycles

\* The price moves: the pool's current tick changes.
PriceMove ==
    /\ ~Finished
    /\ \E t \in Ticks : t # tick /\ tick' = t
    /\ UNCHANGED <<chain, balA, balB, engineVars>>
    /\ UNCHANGED engineRest

\* bot.performCheck -> rebalanceService.checkAndRebalance(config.poolAddress)
CallCheckAndRebalance ==
    /\ pc = "idle"
    /\ cycles < MaxCycles
    /\ pc' = "cr_read"
    /\ entry' = "checkAndRebalance"
    /\ loc' = NoLocals
    /\ obs' = NoObs
    /\ result' = NoResult
    /\ cycles' = cycles + 1
    /\ UNCHANGED <<chainVars, config, trackedPositionId>>
    /\ UNCHANGED engineRest

\* rebalancePosition is public: a caller may invoke it directly.
CallRebalancePosition ==
    /\ pc = "idle"
    /\ cycles < MaxCycles
    /\ pc' = "rp_read"
    /\ entry' = "rebalancePosition"
    /\ loc' = NoLocals
    /\ obs' = NoObs
    /\ result' = NoResult
    /\ cycles' = cycles + 1
    /\ UNCHANGED <<chainVars, config, trackedPositionId>>
    /\ UNCHANGED engineRest

-----------------------------------------------------------------------------
(* checkAndRebalance                                                        *)

CrPoolPositions == FilterPool(getPositions(chain), ThisPool)

\* Variant: a tracked id that names no position falls through to the auto-tracking.
CrTrackedOrMostLiquid ==
    LET tracked == Find(SelectSeq(CrPoolPositions,
                                  LAMBDA p : p.positionId = trackedPositionId))
    IN  IF trackedPositionId # 0 /\ tracked # NotFound
        THEN tracked
        ELSE IF Len(CrPoolPositions) > 0 THEN MostLiquid(CrPoolPositions) ELSE NotFound

\* The position the cycle looks at: the tracked one, else the most liquid one.
CrTrackedPosition ==
    IF trackedPositionId # 0
    THEN Find(SelectSeq(CrPoolPositions, LAMBDA p : p.positionId = trackedPositionId))
    ELSE IF Len(CrPoolPositions) > 0 THEN MostLiquid(CrPoolPositions) ELSE NotFound

\* getPoolInfo or getPositions throws: logged and rethrown (`throw error`).
CrReadFails ==
    /\ pc = "cr_read"
    /\ \E e \in ReadErrors :
        /\ result' = Thrown(e)
        /\ obs' = [obs EXCEPT !.failures = @ \cup {"read"}]
    /\ pc' = "idle"
    /\ UNCHANGED <<chainVars, config, trackedPositionId, entry, loc, cycles>>
    /\ UNCHANGED engineRest

\* The tracked id names no position of the pool: warn and skip.
CrTrackedNotFound ==
    /\ pc = "cr_read"
    /\ trackedPositionId # 0
    /\ CrTrackedPosition = NotFound
    /\ result' = ReturnNull
    /\ pc' = "idle"
    /\ obs' = [obs EXCEPT !.readPoolEmpty = (Len(CrPoolPositions) = 0)]
    /\ UNCHANGED <<chainVars, config, trackedPositionId, entry, loc, cycles>>
    /\ UNCHANGED engineRest

\* Nothing tracked and no position in the pool: nothing to rebalance.
CrNoPositions ==
    /\ pc = "cr_read"
    /\ trackedPositionId = 0
    /\ Len(CrPoolPositions) = 0
    /\ result' = ReturnNull
    /\ pc' = "idle"
    /\ obs' = [obs EXCEPT !.readPoolEmpty = TRUE]
    /\ UNCHANGED <<chainVars, config, trackedPositionId, entry, loc, cycles>>
    /\ UNCHANGED engineRest

\* The tracked (or auto-tracked) position is in range and away from its edges.
CrNoActionNeeded ==
    /\ pc = "cr_read"
    /\ CrTrackedPosition # NotFound
    /\ isPositionInRange(CrTrackedPosition.tickLower, CrTrackedPosition.tickUpper, tick)
    /\ ~shouldRebalance(CrTrackedPosition, tick)
    /\ trackedPositionId' = CrTrackedPosition.positionId
    /\ result' = ReturnNull
    /\ pc' = "idle"
    /\ UNCHANGED <<chainVars, config, entry, loc, obs, cycles>>
    /\ UNCHANGED engineRest

\* Otherwise: `return await this.rebalancePosition(poolAddress)`.
CrRebalanceNeeded ==
    /\ pc = "cr_read"
    /\ CrTrackedPosition # NotFound
    /\ ~(/\ isPositionInRange(CrTrackedPosition.tickLower, CrTrackedPosition.tickUpper, tick)
         /\ ~shouldRebalance(CrTrackedPosition, tick))
    /\ trackedPositionId' = CrTrackedPosition.positionId
    /\ pc' = "rp_read"
    /\ UNCHANGED <<chainVars, config, entry, loc, obs, result, cycles>>
    /\ UNCHANGED engineRest

-----------------------------------------------------------------------------
(* rebalancePosition: the read and the decisions before any transaction.    *)

RpPoolPositions == FilterPool(getPositions(chain), ThisPool)

\* positionsNeedingRebalance
\* Variant: every position of the pool that needs rebalancing, tracked or not.
RpNeedingRebalanceAll == SelectSeq(RpPoolPositions, LAMBDA p : shouldRebalance(p, tick))

RpNeedingRebalance ==
    IF trackedPositionId # 0
    THEN LET trackedPosition ==
                 Find(SelectSeq(RpPoolPositions, LAMBDA p : p.positionId = trackedPositionId))
         IN  IF trackedPosition # NotFound /\ shouldRebalance(trackedPosition, tick)
             THEN <<trackedPosition>>
             ELSE <<>>
    ELSE SelectSeq(RpPoolPositions, LAMBDA p : shouldRebalance(p, tick))

RpHasLiquidityToMove ==
    \E i \in 1..Len(RpNeedingRebalance) : HasLiquidity(RpNeedingRebalance[i])

RpInRangePositions == SelectSeq(RpPoolPositions, LAMBDA p : ~shouldRebalance(p, tick))

\* Variant: the most liquid position of the pool, candidate or not.
RpPositionMostLiquidOfPool == MostLiquid(RpPoolPositions)

RpPosition == MostLiquid(RpNeedingRebalance)

\* Variant: the old position's width is not handed on (configured width or tightest).
RpRangeTightest == calculateOptimalRange(tick, TickSpacing, 0, config.rangeWidth)

RpRange ==
    calculateOptimalRange(tick, TickSpacing,
        IF trackedPositionId # 0 THEN RpPosition.tickUpper - RpPosition.tickLower ELSE 0,
        config.rangeWidth)

\* Variant: the unchanged-range return taken out.
RpRangeAlwaysChanged == FALSE

\* Variant: a bound one whole tick spacing away still counts as unchanged.
RpRangeWithinOneSpacing ==
    /\ Abs(RpPosition.tickLower - RpRange.lower) <= TickSpacing
    /\ Abs(RpPosition.tickUpper - RpRange.upper) <= TickSpacing

RpRangeUnchangedTest ==
    /\ Abs(RpPosition.tickLower - RpRange.lower) < TickSpacing
    /\ Abs(RpPosition.tickUpper - RpRange.upper) < TickSpacing

\* Variant: no position at the target range is looked for.
RpExistingNone == NotFound

\* `poolPositions.find(p => p.positionId !== position.positionId && ...)`
RpExisting ==
    Find(SelectSeq(RpPoolPositions,
                   LAMBDA p : /\ p.positionId # RpPosition.positionId
                              /\ p.tickLower = RpRange.lower
                              /\ p.tickUpper = RpRange.upper))

\* Variant: the early returns without the dry-run one.
RpProceedsInDryRun ==
    /\ Len(RpPoolPositions) > 0
    /\ Len(RpNeedingRebalance) > 0
    /\ (RpHasLiquidityToMove \/ Len(RpInRangePositions) = 0)
    /\ ~RpRangeUnchangedTest

\* The call goes past the early returns.
RpProceeds ==
    /\ Len(RpPoolPositions) > 0
    /\ Len(RpNeedingRebalance) > 0
    /\ (RpHasLiquidityToMove \/ Len(RpInRangePositions) = 0)
    /\ ~RpRangeUnchangedTest
    /\ ~config.dryRun

\* Variant: the liquidity goes back to the old position's range.
RpLocalsOldRange ==
    [NoLocals EXCEPT !.position = RpPosition, !.lower = RpPosition.tickLower,
                     !.upper = RpPosition.tickUpper,
                     !.existingPositionId = RpExisting.positionId]

RpLocals ==
    [NoLocals EXCEPT !.position = RpPosition, !.lower = RpRange.lower,
                     !.upper = RpRange.upper,
                     !.existingPositionId = RpExisting.positionId]

\* getPoolInfo or getPositions throws: caught by the method's catch.
RpReadFails ==
    /\ pc = "rp_read"
    /\ \E e \in ReadErrors :
        /\ result' = Failure(e)
        /\ obs' = [obs EXCEPT !.failures = @ \cup {"read"}]
    /\ pc' = "idle"
    /\ UNCHANGED <<chainVars, config, trackedPositionId, entry, loc, cycles>>
    /\ UNCHANGED engineRest

RpNoPositions ==
    /\ pc = "rp_read"
    /\ Len(RpPoolPositions) = 0
    /\ result' = [NoResult EXCEPT !.kind = "value", !.error = MsgNoExistingPosition]
    /\ obs' = [obs EXCEPT !.readPoolEmpty = TRUE]
    /\ pc' = "idle"
    /\ UNCHANGED <<chainVars, config, trackedPositionId, entry, loc, cycles>>
    /\ UNCHANGED engineRest

RpNothingNeedsRebalance ==
    /\ pc = "rp_read"
    /\ Len(RpPoolPositions) > 0
    /\ Len(RpNeedingRebalance) = 0
    /\ result' = Success
    /\ pc' = "idle"
    /\ UNCHANGED <<chainVars, config, trackedPositionId, entry, loc, obs, cycles>>
    /\ UNCHANGED engineRest

\* The candidates are empty and some position is already in range.
RpEmptyAndInRangeExists ==
    /\ pc = "rp_read"
    /\ Len(RpPoolPositions) > 0
    /\ Len(RpNeedingRebalance) > 0
    /\ ~RpHasLiquidityToMove
    /\ Len(RpInRangePositions) > 0
    /\ result' = Success
    /\ pc' = "idle"
    /\ UNCHANGED <<chainVars, config, trackedPositionId, entry, loc, obs, cycles>>
    /\ UNCHANGED engineRest

RpRangeUnchanged ==
    /\ pc = "rp_read"
    /\ Len(RpPoolPositions) > 0
    /\ Len(RpNeedingRebalance) > 0
    /\ (RpHasLiquidityToMove \/ Len(RpInRangePositions) = 0)
    /\ RpRangeUnchangedTest
    /\ result' = SuccessWithRanges(RpPosition, RpRange.lower, RpRange.upper, FALSE)
    /\ loc' = NoLocals
    /\ pc' = "idle"
    /\ UNCHANGED <<chainVars, config, trackedPositionId, entry, obs, cycles>>
    /\ UNCHANGED engineRest

RpDryRun ==
    /\ pc = "rp_read"
    /\ Len(RpPoolPositions) > 0
    /\ Len(RpNeedingRebalance) > 0
    /\ (RpHasLiquidityToMove \/ Len(RpInRangePositions) = 0)
    /\ ~RpRangeUnchangedTest
    /\ config.dryRun
    /\ result' = SuccessWithRanges(RpPosition, RpRange.lower, RpRange.upper, FALSE)
    /\ loc' = NoLocals
    /\ pc' = "idle"
    /\ UNCHANGED <<chainVars, config, trackedPositionId, entry, obs, cycles>>
    /\ UNCHANGED engineRest

\* `if (hasLiquidity) { try { ...getBalance... removeLiquidity ...`
RpBeginRemoval ==
    /\ pc = "rp_read"
    /\ RpProceeds
    /\ HasLiquidity(RpPosition)
    /\ loc' = RpLocals
    /\ obs' = [obs EXCEPT !.positionId = RpPosition.positionId]
    /\ pc' = "rm_before"
    /\ UNCHANGED <<chainVars, config, trackedPositionId, entry, result, cycles>>
    /\ UNCHANGED engineRest

\* `else { logger.info('Position has no liquidity - skipping removal step') }`
RpSkipRemoval ==
    /\ pc = "rp_read"
    /\ RpProceeds
    /\ ~HasLiquidity(RpPosition)
    /\ loc' = RpLocals
    /\ obs' = [obs EXCEPT !.removalSkipped = TRUE, !.positionId = RpPosition.positionId]
    /\ pc' = "al_balances"
    /\ UNCHANGED <<chainVars, config, trackedPositionId, entry, result, cycles>>
    /\ UNCHANGED engineRest

-----------------------------------------------------------------------------
(* rebalancePosition: the removal step (balances, removeLiquidity, balances) *)

\* Variant of SwallowRemovalError: the removal error ends the call as a failure.
RethrowRemovalError(e) == [pc |-> "idle", result |-> Failure(e)]

\* The catch around the removal step: the error is logged and the call continues
\* with the add-liquidity step; the result so far is untouched.
SwallowRemovalError(e) == [pc |-> "al_balances", result |-> result]

RemovalCaught(e) ==
    /\ obs' = [obs EXCEPT !.failures = @ \cup {"removal"}]
    /\ pc' = SwallowRemovalError(e).pc
    /\ result' = SwallowRemovalError(e).result
    /\ loc' = [loc EXCEPT !.balanceBeforeA = 0, !.balanceBeforeB = 0, !.attempt = 0]

\* getBalance before the removal throws.
RmBalanceBeforeFails ==
    /\ pc = "rm_before"
    /\ \E e \in ReadErrors : RemovalCaught(e)
    /\ UNCHANGED <<chainVars, config, trackedPositionId, entry, cycles>>
    /\ UNCHANGED engineRest

RmBalanceBefore ==
    /\ pc = "rm_before"
    /\ loc' = [loc EXCEPT !.balanceBeforeA = balA, !.balanceBeforeB = balB, !.attempt = 0]
    /\ pc' = "rm_attempt"
    /\ UNCHANGED <<chainVars, config, trackedPositionId, entry, obs, result, cycles>>
    /\ UNCHANGED engineRest

\* The position as refetched inside the attempt.
RmFreshPosition ==
    Find(SelectSeq(getPositions(chain), LAMBDA p : p.positionId = loc.position.positionId))

\* The payload of an attempt: pool and coin types from the refetched position,
\* delta_liquidity from the `liquidity` argument (position.liquidity as read by
\* rebalancePosition).
RemoveTx ==
    [NoTx EXCEPT !.kind = "remove", !.posId = loc.position.positionId,
                 !.attempt = loc.attempt,
                 !.deltaLiquidity = loc.position.liquidity,
                 !.freshLiquidity = RmFreshPosition.liquidity]

\* Variant: a retryable failure is retried whatever the attempt number.
TxGivesUpOnFatalOnly(e, attempt) == ~TxRetryable(e.msg)

\* A failed attempt of a retryTransaction loop: thrown on, or retried.
TxGivesUp(e, attempt) ==
    \/ ~TxRetryable(e.msg)
    \/ ~LoopCondition("retryTransaction", attempt + 1, TxMaxRetries)

\* getPositions throws inside the attempt.
RmAttemptReadFails ==
    /\ pc = "rm_attempt"
    /\ \E e \in ReadErrors :
        IF TxGivesUp(e, loc.attempt)
        THEN RemovalCaught(e)
        ELSE /\ loc' = [loc EXCEPT !.attempt = @ + 1]
             /\ UNCHANGED <<obs, pc, result>>
    /\ UNCHANGED <<chainVars, config, trackedPositionId, entry, cycles>>
    /\ UNCHANGED engineRest

\* The remove-liquidity transaction is submitted and fails.
RmTxFails ==
    /\ pc = "rm_attempt"
    /\ \E e \in TxRetryableErrors \cup TxFatalErrors :
        IF TxGivesUp(e, loc.attempt)
        THEN /\ obs' = [Submit(obs, RemoveTx) EXCEPT !.failures = @ \cup {"removal"}]
             /\ pc' = SwallowRemovalError(e).pc
             /\ result' = SwallowRemovalError(e).result
             /\ loc' = [loc EXCEPT !.balanceBeforeA = 0, !.balanceBeforeB = 0,
                                   !.attempt = 0]
        ELSE /\ obs' = Submit(obs, RemoveTx)
             /\ loc' = [loc EXCEPT !.attempt = @ + 1]
             /\ UNCHANGED <<pc, result>>
    /\ UNCHANGED <<chainVars, config, trackedPositionId, entry, cycles>>
    /\ UNCHANGED engineRest

\* The remove-liquidity transaction succeeds: the position pays out.
RmTxOk ==
    /\ pc = "rm_attempt"
    /\ CanPayGas(config, balA, balB)
    /\ loc.position.liquidity <= chain[loc.position.positionId].liquidity
    /\ LET id == loc.position.positionId
           out == RemovedTokens(chain[id], loc.position.liquidity, tick)
       IN  /\ chain' = [chain EXCEPT ![id].liquidity = @ - loc.position.liquidity]
           /\ balA' = balA + out.a - GasA(config)
           /\ balB' = balB + out.b - GasB(config)
    /\ obs' = Submit(obs, [RemoveTx EXCEPT !.ok = TRUE])
    /\ pc' = "rm_after"
    /\ UNCHANGED <<tick, config, trackedPositionId, entry, loc, result, cycles>>
    /\ UNCHANGED engineRest

\* getBalance after the removal throws: caught by the same catch.
RmBalanceAfterFails ==
    /\ pc = "rm_after"
    /\ \E e \in ReadErrors : RemovalCaught(e)
    /\ UNCHANGED <<chainVars, config, trackedPositionId, entry, cycles>>
    /\ UNCHANGED engineRest

\* Variant: the balance delta as it is, negative when gas outweighed the payout.
FreedAmountSigned(after, before) == after - before

\* `removedAmountA = deltaA > 0n ? deltaA.toString() : undefined` (0 = undefined)
FreedAmount(after, before) == IF after - before > 0 THEN after - before ELSE 0

RmBalanceAfter ==
    /\ pc = "rm_after"
    /\ loc' = [loc EXCEPT !.removedAmountA = FreedAmount(balA, loc.balanceBeforeA),
                          !.removedAmountB = FreedAmount(balB, loc.balanceBeforeB),
                          !.balanceBeforeA = 0, !.balanceBeforeB = 0, !.attempt = 0]
    /\ pc' = "al_balances"
    /\ UNCHANGED <<chainVars, config, trackedPositionId, entry, obs, result, cycles>>
    /\ UNCHANGED engineRest

-----------------------------------------------------------------------------
(* addLiquidity: amounts, the balancing swap, validation.                   *)

\* `isSui && balance > SUI_GAS_RESERVE ? balance - SUI_GAS_RESERVE : balance`
safeBalance(isSui, balance, reserve) ==
    IF isSui /\ balance > reserve THEN balance - reserve ELSE balance

\* Variant of RebalanceAmount that falls back to the safe balance when nothing was
\* removed: `removed > 0n && removed <= safeBalance ? removed : safeBalance`.
RebalanceAmountOrSafe(removed, safe) ==
    IF removed > 0 /\ removed <= safe THEN removed ELSE safe

\* `removed > 0n ? (removed <= safeBalance ? removed : safeBalance) : 0n`
RebalanceAmount(removed, safe) ==
    IF removed > 0 THEN (IF removed <= safe THEN removed ELSE safe) ELSE 0

\* `config.tokenAmount || String(safeBalance > 0n ? safeBalance / 10n : defaultMinAmount)`
FallbackAmount(configured, safe) ==
    IF configured # 0 THEN configured
    ELSE IF safe > 0 THEN safe \div 10 ELSE DefaultMinAmount

\* `if (removedAmountA || removedAmountB)`
Rebalancing(removedA, removedB) == removedA # 0 \/ removedB # 0

\* amountA / amountB as first computed by addLiquidity.
ProposedAmounts(cfg, removedA, removedB, walletA, walletB) ==
    LET safeA == safeBalance(cfg.isSuiA, walletA, cfg.gasBudget)
        safeB == safeBalance(cfg.isSuiB, walletB, cfg.gasBudget)
    IN  IF Rebalancing(removedA, removedB)
        THEN [a |-> RebalanceAmount(removedA, safeA), b |-> RebalanceAmount(removedB, safeB)]
        ELSE [a |-> FallbackAmount(cfg.tokenAAmount, safeA),
              b |-> FallbackAmount(cfg.tokenBAmount, safeB)]

oneIsZero(preSwapA, preSwapB) ==
    (preSwapA = 0 /\ preSwapB > 0) \/ (preSwapA > 0 /\ preSwapB = 0)

\* `(hasOnlyA ? preSwapA : preSwapB) / 2n`
swapAmount(preSwapA, preSwapB) == (IF preSwapA > 0 THEN preSwapA ELSE preSwapB) \div 2

\* Variant: a swap whenever one amount is zero, also when half of the other is 0.
SwapDecidedAnyAmount(preSwapA, preSwapB) == oneIsZero(preSwapA, preSwapB)

SwapDecided(preSwapA, preSwapB) ==
    oneIsZero(preSwapA, preSwapB) /\ swapAmount(preSwapA, preSwapB) > 0

\* Variant: both coins clamped by the safeBalance rule of the first computation.
PostSwapAmountSafeBalance(preSwap, swapDelta, isSui, walletAfter, reserve) ==
    LET adjusted == preSwap + swapDelta
        safe == safeBalance(isSui, walletAfter, reserve)
        capped == IF adjusted > safe THEN safe ELSE adjusted
    IN  IF capped > 0 THEN capped ELSE 0

\* One side of the post-swap adjustment.
PostSwapAmount(preSwap, swapDelta, isSui, walletAfter, reserve) ==
    LET adjusted == preSwap + swapDelta
        maxUsable == IF walletAfter > reserve THEN walletAfter - reserve ELSE 0
        capped == IF isSui /\ adjusted > maxUsable THEN maxUsable ELSE adjusted
    IN  IF capped > 0 THEN capped ELSE 0

\* The validation block: the error it throws, or NoError.
ValidateAmounts(amountA, amountB, rebalancing) ==
    IF rebalancing
    THEN IF amountA = 0 /\ amountB = 0
         THEN [isError |-> TRUE, wrapped |-> FALSE, msg |-> MsgNoTokens]
         ELSE NoError
    ELSE IF amountA = 0 \/ amountB = 0
         THEN [isError |-> TRUE, wrapped |-> FALSE, msg |-> MsgInsufficientToAdd]
         ELSE NoError

AlProposed ==
    ProposedAmounts(config, loc.removedAmountA, loc.removedAmountB, balA, balB)

AlRebalancing == Rebalancing(loc.removedAmountA, loc.removedAmountB)

AlObserved ==
    [obs EXCEPT !.addInvoked = TRUE, !.proposedA = AlProposed.a,
                !.proposedB = AlProposed.b]

\* getBalance at the top of addLiquidity throws: rethrown, caught by rebalancePosition.
AlBalanceFails ==
    /\ pc = "al_balances"
    /\ \E e \in ReadErrors :
        /\ result' = Failure(e)
        /\ obs' = [obs EXCEPT !.addInvoked = TRUE, !.failures = @ \cup {"add"}]
    /\ loc' = NoLocals
    /\ pc' = "idle"
    /\ UNCHANGED <<chainVars, config, trackedPositionId, entry, cycles>>
    /\ UNCHANGED engineRest

\* One amount is zero and half of the other is positive: go and swap.
AlNeedsSwap ==
    /\ pc = "al_balances"
    /\ SwapDecided(AlProposed.a, AlProposed.b)
    /\ loc' = [loc EXCEPT !.amountA = AlProposed.a, !.amountB = AlProposed.b]
    /\ obs' = AlObserved
    /\ pc' = "al_swap"
    /\ UNCHANGED <<chainVars, config, trackedPositionId, entry, result, cycles>>
    /\ UNCHANGED engineRest

\* No swap, and the validation throws.
AlInvalidAmounts ==
    /\ pc = "al_balances"
    /\ ~SwapDecided(AlProposed.a, AlProposed.b)
    /\ ValidateAmounts(AlProposed.a, AlProposed.b, AlRebalancing) # NoError
    /\ result' = Failure(ValidateAmounts(AlProposed.a, AlProposed.b, AlRebalancing))
    /\ loc' = NoLocals
    /\ obs' = [AlObserved EXCEPT !.failures = @ \cup {"add"}]
    /\ pc' = "idle"
    /\ UNCHANGED <<chainVars, config, trackedPositionId, entry, cycles>>
    /\ UNCHANGED engineRest

\* No swap, the amounts pass: on to the add-liquidity transaction.
AlAmountsReady ==
    /\ pc = "al_balances"
    /\ ~SwapDecided(AlProposed.a, AlProposed.b)
    /\ ValidateAmounts(AlProposed.a, AlProposed.b, AlRebalancing) = NoError
    /\ loc' = [loc EXCEPT !.amountA = AlProposed.a, !.amountB = AlProposed.b,
                          !.attempt = 0]
    /\ obs' = AlObserved
    /\ pc' = "al_attempt"
    /\ UNCHANGED <<chainVars, config, trackedPositionId, entry, result, cycles>>
    /\ UNCHANGED engineRest

SwapTx ==
    [NoTx EXCEPT !.kind = "swap",
                 !.amountA = IF loc.amountA > 0 THEN swapAmount(loc.amountA, loc.amountB) ELSE 0,
                 !.amountB = IF loc.amountA > 0 THEN 0 ELSE swapAmount(loc.amountA, loc.amountB)]

\* Variant: while one amount is still zero the swap step is entered again.
AfterSwapSwapsAgain(amountA, amountB, o) ==
    IF oneIsZero(amountA, amountB)
    THEN /\ loc' = [loc EXCEPT !.amountA = amountA, !.amountB = amountB]
         /\ obs' = o
         /\ result' = result
         /\ pc' = "al_swap"
    ELSE /\ loc' = [loc EXCEPT !.amountA = amountA, !.amountB = amountB,
                               !.attempt = 0]
         /\ obs' = o
         /\ result' = IF amountA = 0 THEN Failure(ValidateAmounts(0, 0, TRUE)) ELSE result
         /\ pc' = IF amountA = 0 THEN "idle" ELSE "al_attempt"

\* After the swap block: validation, then the transaction or the throw.
AfterSwap(amountA, amountB, o) ==
    LET err == ValidateAmounts(amountA, amountB, AlRebalancing)
    IN  IF err # NoError
        THEN /\ loc' = NoLocals
             /\ obs' = [o EXCEPT !.failures = @ \cup {"add"}]
             /\ result' = Failure(err)
             /\ pc' = "idle"
        ELSE /\ loc' = [loc EXCEPT !.amountA = amountA, !.amountB = amountB,
                                   !.attempt = 0]
             /\ obs' = o
             /\ result' = result
             /\ pc' = "al_attempt"

\* A balance read around the swap or the swap itself fails: warn, keep the amounts.
AlSwapFails ==
    /\ pc = "al_swap"
    /\ \E submitted \in BOOLEAN :
        AfterSwap(loc.amountA, loc.amountB,
                  [(IF submitted THEN Submit(obs, SwapTx) ELSE obs)
                      EXCEPT !.failures = @ \cup {"swap"}])
    /\ UNCHANGED <<chainVars, config, trackedPositionId, entry, cycles>>
    /\ UNCHANGED engineRest

\* The swap succeeds (one for one); the amounts follow the balance deltas.
AlSwapOk ==
    /\ pc = "al_swap"
    /\ LET hasOnlyA == loc.amountA > 0
           amount == swapAmount(loc.amountA, loc.amountB)
           afterA == (IF hasOnlyA THEN balA - amount ELSE balA + amount) - GasA(config)
           afterB == (IF hasOnlyA THEN balB + amount ELSE balB - amount) - GasB(config)
       IN  /\ CanPayGas(config, balA, balB)
           /\ afterA >= 0 /\ afterB >= 0
           /\ balA' = afterA
           /\ balB' = afterB
           /\ AfterSwap(
                PostSwapAmount(loc.amountA, afterA - balA, config.isSuiA, afterA,
                               config.gasBudget),
                PostSwapAmount(loc.amountB, afterB - balB, config.isSuiB, afterB,
                               config.gasBudget),
                Submit(obs, [SwapTx EXCEPT !.ok = TRUE]))
    /\ UNCHANGED <<tick, chain, config, trackedPositionId, entry, cycles>>
    /\ UNCHANGED engineRest

-----------------------------------------------------------------------------
(* addLiquidity: the transaction inside retryTransaction, then discovery.   *)

\* The parameters are built once, before the retry loop; an attempt only refetches
\* the pool's current sqrt price.
AddTx ==
    [NoTx EXCEPT !.kind = "add", !.posId = loc.existingPositionId,
                 !.amountA = loc.amountA, !.amountB = loc.amountB,
                 !.lower = loc.lower, !.upper = loc.upper,
                 !.isOpen = (loc.existingPositionId = 0),
                 !.fixAmountA = (loc.amountA >= loc.amountB),
                 !.attempt = loc.attempt, !.priceReadIn = loc.attempt]

\* What retryTransaction throws when it gives up: the caught value itself when it
\* is not retryable, lastError after the last attempt.
TxThrows(e) == IF TxRetryable(e.msg) THEN AsError(e) ELSE e

\* sdk.Pool.getPool throws inside the attempt.
AlAttemptReadFails ==
    /\ pc = "al_attempt"
    /\ \E e \in ReadErrors :
        IF TxGivesUp(e, loc.attempt)
        THEN /\ result' = Failure(TxThrows(e))
             /\ obs' = [obs EXCEPT !.failures = @ \cup {"add"}]
             /\ loc' = NoLocals
             /\ pc' = "idle"
        ELSE /\ loc' = [loc EXCEPT !.attempt = @ + 1]
             /\ UNCHANGED <<obs, pc, result>>
    /\ UNCHANGED <<chainVars, config, trackedPositionId, entry, cycles>>
    /\ UNCHANGED engineRest

\* The add-liquidity transaction is submitted and fails.
AlTxFails ==
    /\ pc = "al_attempt"
    /\ \E e \in TxRetryableErrors \cup TxFatalErrors :
        IF TxGivesUp(e, loc.attempt)
        THEN /\ result' = Failure(TxThrows(e))
             /\ obs' = [Submit(obs, AddTx) EXCEPT !.failures = @ \cup {"add"}]
             /\ loc' = NoLocals
             /\ pc' = "idle"
        ELSE /\ obs' = Submit(obs, AddTx)
             /\ loc' = [loc EXCEPT !.attempt = @ + 1]
             /\ UNCHANGED <<pc, result>>
    /\ UNCHANGED <<chainVars, config, trackedPositionId, entry, cycles>>
    /\ UNCHANGED engineRest

\* The id the chain gives to a newly opened position.
FreshId(ch) == CHOOSE id \in PosIds : ~ch[id].exists /\ \A j \in 1..(id - 1) : ch[j].exists

AlDeposit == AddConsumed(loc.amountA, loc.amountB, loc.lower, loc.upper, tick)

\* is_open: the transaction opens a position at the new range and funds it.
AlTxOpens ==
    /\ pc = "al_attempt"
    /\ loc.existingPositionId = 0
    /\ \E id \in PosIds : ~chain[id].exists
    /\ AddFeasible(config, loc.amountA, loc.amountB, loc.lower, loc.upper, tick, balA, balB)
    /\ chain' = [chain EXCEPT ![FreshId(chain)] =
                    Position(ThisPool, loc.lower, loc.upper, AlDeposit.a + AlDeposit.b)]
    /\ balA' = balA - AlDeposit.a - GasA(config)
    /\ balB' = balB - AlDeposit.b - GasB(config)
    /\ obs' = [Submit(obs, [AddTx EXCEPT !.ok = TRUE]) EXCEPT !.opened = FreshId(chain)]
    /\ pc' = "rp_discover"
    /\ UNCHANGED <<tick, config, trackedPositionId, entry, loc, result, cycles>>
    /\ UNCHANGED engineRest

\* The transaction adds to the position already at the new range; rebalancePosition
\* returns without a discovery step.
AlTxAddsToExisting ==
    /\ pc = "al_attempt"
    /\ loc.existingPositionId # 0
    /\ AddFeasible(config, loc.amountA, loc.amountB, loc.lower, loc.upper, tick, balA, balB)
    /\ chain' = [chain EXCEPT ![loc.existingPositionId].liquidity =
                    LiquidityOrZero(chain[loc.existingPositionId])
                        + AlDeposit.a + AlDeposit.b]
    /\ balA' = balA - AlDeposit.a - GasA(config)
    /\ balB' = balB - AlDeposit.b - GasB(config)
    /\ obs' = Submit(obs, [AddTx EXCEPT !.ok = TRUE])
    /\ result' = SuccessWithRanges(loc.position, loc.lower, loc.upper, TRUE)
    /\ loc' = NoLocals
    /\ pc' = "idle"
    /\ UNCHANGED <<tick, config, trackedPositionId, entry, cycles>>
    /\ UNCHANGED engineRest

\* Variant: the first other position of the pool, whatever its range.
RpNewPosAnyOther ==
    Find(SelectSeq(getPositions(chain),
                   LAMBDA p : /\ p.poolAddress = ThisPool
                              /\ p.positionId # loc.position.positionId))

\* `updatedPositions.find(p => p.poolAddress === poolAddress && p.tickLower === lower
\*    && p.tickUpper === upper && p.positionId !== position.positionId)`
RpNewPos ==
    Find(SelectSeq(getPositions(chain),
                   LAMBDA p : /\ p.poolAddress = ThisPool
                              /\ p.tickLower = loc.lower
                              /\ p.tickUpper = loc.upper
                              /\ p.positionId # loc.position.positionId))

\* The tracked id after a discovery read that worked.
TrackAfterDiscovery(newPos, tracked) ==
    IF newPos # NotFound THEN newPos.positionId ELSE tracked

RpDiscover ==
    /\ pc = "rp_discover"
    /\ trackedPositionId' = TrackAfterDiscovery(RpNewPos, trackedPositionId)
    /\ result' = SuccessWithRanges(loc.position, loc.lower, loc.upper, TRUE)
    /\ loc' = NoLocals
    /\ pc' = "idle"
    /\ UNCHANGED <<chainVars, config, entry, obs, cycles>>
    /\ UNCHANGED engineRest

\* getPositions throws after the add: warned about, and success is still returned.
RpDiscoverFails ==
    /\ pc = "rp_discover"
    /\ obs' = [obs EXCEPT !.failures = @ \cup {"discovery"}]
    /\ result' = SuccessWithRanges(loc.position, loc.lower, loc.upper, TRUE)
    /\ loc' = NoLocals
    /\ pc' = "idle"
    /\ UNCHANGED <<chainVars, config, trackedPositionId, entry, cycles>>
    /\ UNCHANGED engineRest

\* The owner empties a position with another client: its liquidity is paid out to
\* the wallet.
OwnerWithdraws ==
    /\ ~Finished
    /\ \E id \in PosIds :
        /\ chain[id].exists
        /\ chain[id].liquidity > 0
        /\ chain' = [chain EXCEPT ![id].liquidity = 0]
        /\ balA' = balA + RemovedTokens(chain[id], chain[id].liquidity, tick).a
        /\ balB' = balB + RemovedTokens(chain[id], chain[id].liquidity, tick).b
    /\ UNCHANGED <<tick, engineVars>>
    /\ UNCHANGED engineRest

EngineNext ==
    \/ PriceMove
    \/ OwnerWithdraws
    \/ CallCheckAndRebalance
    \/ CallRebalancePosition
    \/ CrReadFails
    \/ CrTrackedNotFound
    \/ CrNoPositions
    \/ CrNoActionNeeded
    \/ CrRebalanceNeeded
    \/ RpReadFails
    \/ RpNoPositions
    \/ RpNothingNeedsRebalance
    \/ RpEmptyAndInRangeExists
    \/ RpRangeUnchanged
    \/ RpDryRun
    \/ RpBeginRemoval
    \/ RpSkipRemoval
    \/ RmBalanceBeforeFails
    \/ RmBalanceBefore
    \/ RmAttemptReadFails
    \/ RmTxFails
    \/ RmTxOk
    \/ RmBalanceAfterFails
    \/ RmBalanceAfter
    \/ AlBalanceFails
    \/ AlNeedsSwap
    \/ AlInvalidAmounts
    \/ AlAmountsReady
    \/ AlSwapFails
    \/ AlSwapOk
    \/ AlAttemptReadFails
    \/ AlTxFails
    \/ AlTxOpens
    \/ AlTxAddsToExisting
    \/ RpDiscover
    \/ RpDiscoverFails

-----------------------------------------------------------------------------
(* CetusRebalanceBot: start, the interval timer, performCheck, stop.        *)

MaxChecks == 3               \* performCheck calls in one behaviour
MaxBotCalls == 3             \* start() and stop() calls in one behaviour
MaxAttempts == 2             \* retries a cycle's network call may go through

CheckSlots == 1..MaxChecks
TimerIds == 1..MaxBotCalls

\* A performCheck call awaiting checkAndRebalance: reading the chain, sending a
\* transaction, or asleep in a retry backoff.
FreeSlot == [phase |-> "free", by |-> "none", attempt |-> 0]

InFlight(c) == {k \in CheckSlots : c[k].phase # "free"}

\* The slot a new performCheck call takes.
NextSlot(c) == CHOOSE k \in CheckSlots : c[k].phase = "free" /\ \A j \in 1..(k - 1) : c[j].phase # "free"

\* The id setInterval returns.
NextTimer(t) == CHOOSE id \in TimerIds : id \notin t /\ \A j \in 1..(id - 1) : j \in t

BotInit ==
    /\ isRunning = FALSE
    /\ intervalId = 0
    /\ timers = {}
    /\ startPc = "idle"
    /\ checks = [k \in CheckSlots |-> FreeSlot]
    /\ botCalls = 0

BotParked == BotInit

\* start() while running: `logger.warn('Bot is already running'); return`.
StartWhileRunning ==
    /\ startPc = "idle"
    /\ botCalls < MaxBotCalls
    /\ isRunning
    /\ botCalls' = botCalls + 1
    /\ UNCHANGED <<isRunning, intervalId, timers, startPc, checks>>
    /\ UNCHANGED botRest

\* start(): `await this.validateSetup()`.
StartCall ==
    /\ startPc = "idle"
    /\ botCalls < MaxBotCalls
    /\ ~isRunning
    /\ startPc' = "validateSetup"
    /\ botCalls' = botCalls + 1
    /\ UNCHANGED <<isRunning, intervalId, timers, checks>>
    /\ UNCHANGED botRest

\* validateSetup throws (the pool cannot be read): start() rejects.
ValidateSetupFails ==
    /\ startPc = "validateSetup"
    /\ startPc' = "idle"
    /\ UNCHANGED <<isRunning, intervalId, timers, checks, botCalls>>
    /\ UNCHANGED botRest

\* `this.isRunning = true; await this.performCheck();`
StartInitialCheck ==
    /\ startPc = "validateSetup"
    /\ \E k \in CheckSlots : checks[k].phase = "free"
    /\ isRunning' = TRUE
    /\ checks' = [checks EXCEPT ![NextSlot(checks)] =
                    [phase |-> "read", by |-> "start", attempt |-> 0]]
    /\ startPc' = "performCheck"
    /\ UNCHANGED <<intervalId, timers, botCalls>>
    /\ UNCHANGED botRest

\* The timer fires: `async () => { await this.performCheck(); }`.
TimerFires ==
    /\ timers # {}
    /\ \E k \in CheckSlots : checks[k].phase = "free"
    /\ checks' = [checks EXCEPT ![NextSlot(checks)] =
                    [phase |-> "read", by |-> "timer", attempt |-> 0]]
    /\ UNCHANGED <<isRunning, intervalId, timers, startPc, botCalls>>
    /\ UNCHANGED botRest

\* checkAndRebalance goes from its reads to a transaction.
CheckSubmits ==
    /\ \E k \in CheckSlots :
        /\ checks[k].phase = "read"
        /\ checks' = [checks EXCEPT ![k].phase = "transaction"]
    /\ UNCHANGED <<isRunning, intervalId, timers, startPc, botCalls>>
    /\ UNCHANGED botRest

\* A retryable failure: the cycle sleeps its backoff delay.
CheckBacksOff ==
    /\ \E k \in CheckSlots :
        /\ checks[k].phase = "transaction"
        /\ checks[k].attempt < MaxAttempts
        /\ checks' = [checks EXCEPT ![k].phase = "sleep", ![k].attempt = @ + 1]
    /\ UNCHANGED <<isRunning, intervalId, timers, startPc, botCalls>>
    /\ UNCHANGED botRest

CheckWakes ==
    /\ \E k \in CheckSlots :
        /\ checks[k].phase = "sleep"
        /\ checks' = [checks EXCEPT ![k].phase = "transaction"]
    /\ UNCHANGED <<isRunning, intervalId, timers, startPc, botCalls>>
    /\ UNCHANGED botRest

\* A performCheck started by the timer ends (result logged, or error caught).
CheckEnds ==
    /\ \E k \in CheckSlots :
        /\ checks[k].phase \in {"read", "transaction"}
        /\ checks[k].by = "timer"
        /\ checks' = [checks EXCEPT ![k] = FreeSlot]
    /\ UNCHANGED <<isRunning, intervalId, timers, startPc, botCalls>>
    /\ UNCHANGED botRest

\* The initial performCheck ends and start() arms the timer:
\* `this.intervalId = setInterval(...)`.
InitialCheckEnds ==
    /\ startPc = "performCheck"
    /\ \E k \in CheckSlots :
        /\ checks[k].phase \in {"read", "transaction"}
        /\ checks[k].by = "start"
        /\ checks' = [checks EXCEPT ![k] = FreeSlot]
    /\ intervalId' = NextTimer(timers)
    /\ timers' = timers \cup {NextTimer(timers)}
    /\ startPc' = "idle"
    /\ UNCHANGED <<isRunning, botCalls>>
    /\ UNCHANGED botRest

\* stop() while not running: `logger.warn('Bot is not running'); return`.
StopWhileStopped ==
    /\ botCalls < MaxBotCalls
    /\ ~isRunning
    /\ botCalls' = botCalls + 1
    /\ UNCHANGED <<isRunning, intervalId, timers, startPc, checks>>
    /\ UNCHANGED botRest

\* stop(): `this.isRunning = false; clearInterval(this.intervalId)`.
StopCall ==
    /\ botCalls < MaxBotCalls
    /\ isRunning
    /\ isRunning' = FALSE
    /\ timers' = timers \ {intervalId}
    /\ intervalId' = 0
    /\ botCalls' = botCalls + 1
    /\ UNCHANGED <<startPc, checks>>
    /\ UNCHANGED botRest

BotNext ==
    \/ StartWhileRunning
    \/ StartCall
    \/ ValidateSetupFails
    \/ StartInitialCheck
    \/ TimerFires
    \/ CheckSubmits
    \/ CheckBacksOff
    \/ CheckWakes
    \/ CheckEnds
    \/ InitialCheckEnds
    \/ StopWhileStopped
    \/ StopCall

-----------------------------------------------------------------------------
(* One evaluation of the amount computation: computeRebalanceAmounts, and   *)
(* the amounts addLiquidity proposes (which has the same rebalance branch). *)

MaxAmount == 3
MaxGasBudget == 2

\* The amounts for a rebalance: the freed amounts, capped at the safe balance.
\* A removed amount of 0 stands for `undefined` (and for '0': same result).
computeRebalanceAmounts(removedAmountA, removedAmountB, walletBalanceA, walletBalanceB, isSuiA, isSuiB, gasBudget) ==
    LET safeBalanceA == safeBalance(isSuiA, walletBalanceA, gasBudget)
        safeBalanceB == safeBalance(isSuiB, walletBalanceB, gasBudget)
    IN  [a |-> RebalanceAmount(removedAmountA, safeBalanceA),
         b |-> RebalanceAmount(removedAmountB, safeBalanceB)]

AmountsParked ==
    [pc |-> "parked", fn |-> "none", removedA |-> 0, removedB |-> 0, walletA |-> 0,
     walletB |-> 0, isSuiA |-> FALSE, isSuiB |-> FALSE, gasBudget |-> 0,
     amountA |-> 0, amountB |-> 0]

AmountsInit ==
    \E ra \in 0..MaxAmount, rb \in 0..MaxAmount, wa \in 0..MaxAmount, wb \in 0..MaxAmount,
       sa \in BOOLEAN, sb \in BOOLEAN, g \in 0..MaxGasBudget :
        /\ ~(sa /\ sb)                       \* at most one coin of a pool is SUI
        /\ cr = [AmountsParked EXCEPT !.pc = "ready", !.removedA = ra, !.removedB = rb,
                                      !.walletA = wa, !.walletB = wb, !.isSuiA = sa,
                                      !.isSuiB = sb, !.gasBudget = g]

\* computeRebalanceAmounts(removedA, removedB, walletA, walletB, isSuiA, isSuiB, gasBudget)
CallComputeRebalanceAmounts ==
    /\ cr.pc = "ready"
    /\ LET out == computeRebalanceAmounts(cr.removedA, cr.removedB, cr.walletA, cr.walletB,
                                          cr.isSuiA, cr.isSuiB, cr.gasBudget)
       IN  cr' = [cr EXCEPT !.pc = "computed", !.fn = "computeRebalanceAmounts",
                            !.amountA = out.a, !.amountB = out.b]
    /\ UNCHANGED amountRest

\* The amounts addLiquidity proposes with these inputs (no amounts configured).
CallAddLiquidityAmounts ==
    /\ cr.pc = "ready"
    /\ LET cfg == [BaseConfig EXCEPT !.isSuiA = cr.isSuiA, !.isSuiB = cr.isSuiB,
                                     !.gasBudget = cr.gasBudget]
           out == ProposedAmounts(cfg, cr.removedA, cr.removedB, cr.walletA, cr.walletB)
       IN  cr' = [cr EXCEPT !.pc = "computed", !.fn = "addLiquidity",
                            !.amountA = out.a, !.amountB = out.b]
    /\ UNCHANGED amountRest

AmountsNext ==
    \/ CallComputeRebalanceAmounts
    \/ CallAddLiquidityAmounts

-----------------------------------------------------------------------------
(* One addLiquidity call with the insufficient-balance recovery and the     *)
(* existing-position fallback: steps 8g and 8h of the add-liquidity         *)
(* sequence, read in that order (a failed recovery is an add that failed,   *)
(* so the fallback follows it when the position pre-existed).               *)

MaxUnits == 2
WalletAmounts == {10 * k : k \in 0..MaxUnits}
RequiredAmounts == {10 * k : k \in 1..MaxUnits}

MsgExpectAmount == <<"Pool", "expect", "1000">>
MsgAmountInsufficient == <<"The", "amount", "is", "Insufficient">>
AddFailureMessages == {MsgInsufficientBalance, MsgExpectAmount, MsgAmountInsufficient,
                       MsgInvalidTickRange, MsgPoolNotFound}

\* `\d+`: the words that are numbers.
IsNumber(w) == w \in {"1000", "5000", "100000"}

\* /insufficient balance/i, /expect\s+\d+/i, /amount is insufficient/i
isInsufficientBalanceError(errorMsg) ==
    LET lower == toLowerCase(errorMsg)
    IN  \/ includes(lower, <<"insufficient", "balance">>)
        \/ \E i \in 1..(Len(lower) - 1) : lower[i] = "expect" /\ IsNumber(lower[i + 1])
        \/ includes(lower, <<"amount", "is", "insufficient">>)

\* `(missingAmount * 110n) / 100n`: the missing amount with a 10% buffer.
calculateSwapAmountWithBuffer(missing) == (missing * 110) \div 100

\* An error of the call: the step that raised it, and its message.
NoAddError == [origin |-> "none", msg |-> <<>>]
AddError(origin, msg) == [origin |-> origin, msg |-> msg]

AddParked ==
    [pc |-> "parked", isOpen |-> FALSE, balanceA |-> 0, balanceB |-> 0,
     requiredA |-> 0, requiredB |-> 0, recoveryAttempted |-> FALSE,
     fallbackAttempted |-> FALSE, adds |-> 0, swaps |-> 0, fallbacks |-> 0,
     opened |-> 0,
     lastFailure |-> NoAddError, original |-> NoAddError, thrown |-> NoAddError]

\* The call begins: adding to an existing position or opening one, with the amounts
\* it requires and the wallet as it is.
AddInit ==
    \E isOpen \in BOOLEAN, wa \in WalletAmounts, wb \in WalletAmounts,
       ra \in RequiredAmounts, rb \in RequiredAmounts :
        al = [AddParked EXCEPT !.pc = "add", !.isOpen = isOpen, !.balanceA = wa,
                               !.balanceB = wb, !.requiredA = ra, !.requiredB = rb]

\* Which token is short: required against current balance.
ShortA(c) == c.balanceA < c.requiredA
ShortB(c) == ~ShortA(c) /\ c.balanceB < c.requiredB

\* The amount of the other token the recovery swap spends.
RecoverySwapAmount(c) ==
    IF ShortA(c) THEN calculateSwapAmountWithBuffer(c.requiredA - c.balanceA)
    ELSE calculateSwapAmountWithBuffer(c.requiredB - c.balanceB)

\* The other token's balance covers the swap.
RecoveryAffordable(c) ==
    /\ ShortA(c) \/ ShortB(c)
    /\ (IF ShortA(c) THEN c.balanceB ELSE c.balanceA) >= RecoverySwapAmount(c)

\* Recovery applies: an insufficient-balance failure, and recovery has not already
\* been attempted for this call.
RecoveryAllowed(c, e) == isInsufficientBalanceError(e.msg) /\ ~c.recoveryAttempted

\* Variant of FallbackAllowed that also falls back from a call that was opening.
FallbackAllowedAlways(c) == ~c.fallbackAttempted

\* The fallback applies: the failed add was to a pre-existing position, and no
\* fallback has been made.
FallbackAllowed(c) == ~c.isOpen /\ ~c.fallbackAttempted

\* Variant of Propagated that lets the latest failure leave the call.
PropagatedLatest(c, e) == e

\* The error that leaves the call after a failed recovery or fallback: the original.
Propagated(c, e) == c.original

\* The add on the position the call was given has failed for good (the recovery, if
\* any, included): one fallback when that position pre-existed, else the original
\* error leaves the call.
FallbackOrThrow(c, e) ==
    IF FallbackAllowed(c)
    THEN [c EXCEPT !.pc = "fallback", !.fallbackAttempted = TRUE, !.fallbacks = @ + 1]
    ELSE [c EXCEPT !.pc = "thrown", !.thrown = Propagated(c, e)]

\* Where the call goes after an add-liquidity failure e (retries included).
AfterAddFailure(c, e) ==
    IF RecoveryAllowed(c, e)
    THEN [c EXCEPT !.pc = "recovery", !.recoveryAttempted = TRUE]
    ELSE FallbackOrThrow(c, e)

\* The add-liquidity operation, through its retry executor, succeeds.
AddSucceeds ==
    /\ al.pc = "add"
    /\ al' = [al EXCEPT !.pc = "done", !.adds = @ + 1]
    /\ UNCHANGED addRest

\* The add-liquidity operation fails after its own retries: this is the original
\* error of the call.
AddFails ==
    /\ al.pc = "add"
    /\ \E msg \in AddFailureMessages :
        LET e == AddError("add", msg)
        IN  al' = AfterAddFailure([al EXCEPT !.adds = @ + 1, !.original = e,
                                             !.lastFailure = e], e)
    /\ UNCHANGED addRest

MsgCannotCoverSwap == <<"Not", "enough", "balance", "to", "swap">>
MsgSwapFailed == <<"Swap", "failed">>

\* Recovery: no token is short, or the other token's balance does not cover the swap.
RecoveryNotAffordable ==
    /\ al.pc = "recovery"
    /\ ~RecoveryAffordable(al)
    /\ LET e == AddError("recovery", MsgCannotCoverSwap)
       IN  al' = FallbackOrThrow([al EXCEPT !.lastFailure = e], e)
    /\ UNCHANGED addRest

\* Recovery: the swap of the other token fails.
RecoverySwapFails ==
    /\ al.pc = "recovery"
    /\ RecoveryAffordable(al)
    /\ LET e == AddError("swap", MsgSwapFailed)
       IN  al' = FallbackOrThrow([al EXCEPT !.swaps = @ + 1, !.lastFailure = e], e)
    /\ UNCHANGED addRest

\* Recovery: the swap goes through; add-liquidity is retried once more.
RecoverySwapOk ==
    /\ al.pc = "recovery"
    /\ RecoveryAffordable(al)
    /\ LET s == RecoverySwapAmount(al)
       IN  al' = [al EXCEPT !.pc = "retry", !.swaps = @ + 1,
                            !.balanceA = IF ShortA(al) THEN @ + s ELSE @ - s,
                            !.balanceB = IF ShortA(al) THEN @ - s ELSE @ + s]
    /\ UNCHANGED addRest

\* The retry of add-liquidity after recovery succeeds.
RetrySucceeds ==
    /\ al.pc = "retry"
    /\ al' = [al EXCEPT !.pc = "done", !.adds = @ + 1]
    /\ UNCHANGED addRest

\* The retry of add-liquidity after recovery fails.
RetryFails ==
    /\ al.pc = "retry"
    /\ \E msg \in AddFailureMessages :
        LET e == AddError("retry", msg)
        IN  al' = AfterAddFailure([al EXCEPT !.adds = @ + 1, !.lastFailure = e], e)
    /\ UNCHANGED addRest

\* Fallback: a new position is opened and the add on it succeeds.
FallbackSucceeds ==
    /\ al.pc = "fallback"
    /\ al' = [al EXCEPT !.pc = "done", !.adds = @ + 1, !.opened = @ + 1]
    /\ UNCHANGED addRest

\* Fallback: the attempt on a new position fails too.
FallbackFails ==
    /\ al.pc = "fallback"
    /\ \E msg \in AddFailureMessages :
        LET e == AddError("fallback", msg)
        IN  al' = [al EXCEPT !.pc = "thrown", !.adds = @ + 1, !.lastFailure = e,
                             !.thrown = Propagated(al, e)]
    /\ UNCHANGED addRest

AddNext ==
    \/ AddSucceeds
    \/ AddFails
    \/ RecoveryNotAffordable
    \/ RecoverySwapFails
    \/ RecoverySwapOk
    \/ RetrySucceeds
    \/ RetryFails
    \/ FallbackSucceeds
    \/ FallbackFails

-----------------------------------------------------------------------------
(* One pass through the balancing-swap step of addLiquidity: the decision    *)
(* (detectSwapNeeded in the tests), the swap, the amounts after it            *)
(* (computePostSwapAmounts in the tests).                                     *)

SwapParked ==
    [pc |-> "parked", amountA |-> 0, amountB |-> 0, walletA |-> 0, walletB |-> 0,
     isSuiA |-> FALSE, isSuiB |-> FALSE, gasBudget |-> 0, needsSwap |-> FALSE,
     aToB |-> FALSE, swapAmount |-> 0, afterA |-> 0, afterB |-> 0, newA |-> 0,
     newB |-> 0]

\* The amounts as proposed (freed amounts, configured amounts or a tenth of the
\* safe balance) and the wallet as the pre-swap balance read returns it.
SwapInit ==
    \E a \in 0..MaxAmount, b \in 0..MaxAmount, wa \in 0..MaxAmount, wb \in 0..MaxAmount,
       sa \in BOOLEAN, sb \in BOOLEAN, g \in 0..MaxGasBudget :
        /\ ~(sa /\ sb)
        /\ sw = [SwapParked EXCEPT !.pc = "proposed", !.amountA = a, !.amountB = b,
                                   !.walletA = wa, !.walletB = wb, !.isSuiA = sa,
                                   !.isSuiB = sb, !.gasBudget = g]

\* `oneIsZero` and `swapAmount > 0n`: the swap is decided, half of the held coin.
DetectSwapNeeded ==
    /\ sw.pc = "proposed"
    /\ SwapDecided(sw.amountA, sw.amountB)
    /\ sw' = [sw EXCEPT !.pc = "swapping", !.needsSwap = TRUE,
                        !.aToB = (sw.amountA > 0),       \* hasOnlyA
                        !.swapAmount = swapAmount(sw.amountA, sw.amountB)]
    /\ UNCHANGED swapRest

\* Both amounts positive, both zero, or half of the held amount is 0: no swap.
DetectNoSwap ==
    /\ sw.pc = "proposed"
    /\ ~SwapDecided(sw.amountA, sw.amountB)
    /\ sw' = [sw EXCEPT !.pc = "no_swap", !.newA = sw.amountA, !.newB = sw.amountB,
                        !.afterA = sw.walletA, !.afterB = sw.walletB]
    /\ UNCHANGED swapRest

\* performSwap succeeds: the wallet loses the sold coins and the gas, gains what
\* the pool pays out; the amounts follow the balance deltas.
SwapSettles ==
    /\ sw.pc = "swapping"
    /\ \E received \in 0..sw.swapAmount, gas \in 0..GasCost :
        LET afterA == (IF sw.aToB THEN sw.walletA - sw.swapAmount ELSE sw.walletA + received)
                          - (IF sw.isSuiA THEN gas ELSE 0)
            afterB == (IF sw.aToB THEN sw.walletB + received ELSE sw.walletB - sw.swapAmount)
                          - (IF sw.isSuiB THEN gas ELSE 0)
        IN  /\ afterA >= 0 /\ afterB >= 0
            /\ sw' = [sw EXCEPT
                        !.pc = "swapped", !.afterA = afterA, !.afterB = afterB,
                        !.newA = PostSwapAmount(sw.amountA, afterA - sw.walletA, sw.isSuiA,
                                                afterA, sw.gasBudget),
                        !.newB = PostSwapAmount(sw.amountB, afterB - sw.walletB, sw.isSuiB,
                                                afterB, sw.gasBudget)]
    /\ UNCHANGED swapRest

\* A balance read or performSwap throws: warn, the amounts stay as proposed.
SwapThrows ==
    /\ sw.pc = "swapping"
    /\ sw' = [sw EXCEPT !.pc = "swap_failed", !.newA = sw.amountA, !.newB = sw.amountB,
                        !.afterA = sw.walletA, !.afterB = sw.walletB]
    /\ UNCHANGED swapRest

SwapNext ==
    \/ DetectSwapNeeded
    \/ DetectNoSwap
    \/ SwapSettles
    \/ SwapThrows

-----------------------------------------------------------------------------
(* One evaluation of a range function of PositionMonitorService.             *)

MaxRangeTick == 22       \* current ticks -MaxRangeTick .. MaxRangeTick
MaxTickSpacing == 3      \* tick spacings 1 .. MaxTickSpacing
MaxWidth == 4            \* range widths 0 (none) .. MaxWidth

\* Ranges of positions: a wide one (5% of its width is 2 ticks) and two narrow ones.
RangePositions ==
    {[tickLower |-> -20, tickUpper |-> 20], [tickLower |-> 0, tickUpper |-> 2],
     [tickLower |-> -1, tickUpper |-> 0]}

RangeParked ==
    [pc |-> "parked", fn |-> "none", currentTick |-> 0, tickSpacing |-> 1,
     preserveRangeWidth |-> 0, rangeWidth |-> 0,
     position |-> [tickLower |-> 0, tickUpper |-> 0, inRange |-> FALSE],
     lower |-> 0, upper |-> 0, answer |-> FALSE]

\* `inRange` is the flag stored with the position when it was read; the pool's tick
\* may have moved since, so the flag is any boolean.
RangeInit ==
    \E t \in (-MaxRangeTick)..MaxRangeTick, sp \in 1..MaxTickSpacing,
       w \in 0..MaxWidth, cw \in {0, MaxWidth}, r \in RangePositions, f \in BOOLEAN :
        rg = [RangeParked EXCEPT !.pc = "ready", !.currentTick = t, !.tickSpacing = sp,
                                 !.preserveRangeWidth = w, !.rangeWidth = cw,
                                 !.position = [tickLower |-> r.tickLower,
                                               tickUpper |-> r.tickUpper,
                                               inRange |-> f]]

\* calculateOptimalRange(currentTick, tickSpacing, preserveRangeWidth)
CallCalculateOptimalRange ==
    /\ rg.pc = "ready"
    /\ LET out == calculateOptimalRange(rg.currentTick, rg.tickSpacing,
                                        rg.preserveRangeWidth, rg.rangeWidth)
       IN  rg' = [rg EXCEPT !.pc = "computed", !.fn = "calculateOptimalRange",
                            !.lower = out.lower, !.upper = out.upper]
    /\ UNCHANGED rangeRest

\* shouldRebalance(position, poolInfo)
CallShouldRebalance ==
    /\ rg.pc = "ready"
    /\ rg' = [rg EXCEPT !.pc = "computed", !.fn = "shouldRebalance",
                        !.answer = shouldRebalance(rg.position, rg.currentTick)]
    /\ UNCHANGED rangeRest

\* isPositionInRange(tickLower, tickUpper, currentTick)
CallIsPositionInRange ==
    /\ rg.pc = "ready"
    /\ rg' = [rg EXCEPT !.pc = "computed", !.fn = "isPositionInRange",
                        !.answer = isPositionInRange(rg.position.tickLower,
                                                     rg.position.tickUpper,
                                                     rg.currentTick)]
    /\ UNCHANGED rangeRest

RangeNext ==
    \/ CallCalculateOptimalRange
    \/ CallShouldRebalance
    \/ CallIsPositionInRange

-----------------------------------------------------------------------------
(* Successive cycles: the bot calls checkAndRebalance again on the same      *)
(* RebalanceService, whose trackedPositionId and positions persist.         *)

MaxCycleCalls == 2           \* checkAndRebalance calls in one behaviour

\* What is remembered of the previous cycle when the next one starts.
CyclesParked == [rebalanced |-> FALSE, trackedOpened |-> FALSE, opened |-> 0,
                 priceMoved |-> FALSE]

\* The owner's positions at the first cycle: one narrow, one wide, or two.
CycleChains ==
    {[EmptyChain EXCEPT ![1] = Position(ThisPool, 0, 2, 3)],
     [EmptyChain EXCEPT ![1] = Position(ThisPool, -2, 2, 3)],
     [EmptyChain EXCEPT ![1] = Position(ThisPool, 0, 2, 2),
                        ![2] = Position(ThisPool, -2, 0, 1)]}

CycleConfigs ==
    {BaseConfig, [BaseConfig EXCEPT !.positionId = 1], [BaseConfig EXCEPT !.positionId = 2],
     [BaseConfig EXCEPT !.isSuiA = TRUE]}

CyclesInit ==
    /\ tick \in Ticks
    /\ chain \in CycleChains
    /\ \E w \in InitialBalances : balA = w[1] /\ balB = w[2]
    /\ config \in CycleConfigs
    /\ trackedPositionId = config.positionId
    /\ pc = "idle"
    /\ entry = "none"
    /\ loc = NoLocals
    /\ obs = NoObs
    /\ result = NoResult
    /\ cycles = 0
    /\ cy = CyclesParked

\* The next timer tick: performCheck calls checkAndRebalance again; the price may
\* have moved since the previous cycle.
CallCheckAndRebalanceAgain ==
    /\ pc = "idle"
    /\ cycles >= MaxCycles
    /\ cycles < MaxCycleCalls
    /\ \E t \in Ticks :
        /\ tick' = t
        /\ cy' = [rebalanced |-> result.success /\ result.hasDigest,
                  trackedOpened |-> obs.opened # 0 /\ trackedPositionId = obs.opened,
                  opened |-> obs.opened,
                  priceMoved |-> t # tick]
    /\ pc' = "cr_read"
    /\ entry' = "checkAndRebalance"
    /\ loc' = NoLocals
    /\ obs' = NoObs
    /\ result' = NoResult
    /\ cycles' = cycles + 1
    /\ UNCHANGED <<chain, balA, balB, config, trackedPositionId>>
    /\ UNCHANGED cyclesRest

\* The cycles of one service; nobody else touches the pool, the positions or the
\* wallet while a cycle runs, so rebalancePosition reads the state that
\* checkAndRebalance has just read.
CyclesNext ==
    \/ CallCheckAndRebalance
    \/ CallCheckAndRebalanceAgain
    \/ CrReadFails
    \/ CrTrackedNotFound
    \/ CrNoActionNeeded
    \/ CrRebalanceNeeded
    \/ RpReadFails
    \/ RpEmptyAndInRangeExists
    \/ RpBeginRemoval
    \/ RpSkipRemoval
    \/ RmBalanceBeforeFails
    \/ RmBalanceBefore
    \/ RmAttemptReadFails
    \/ RmTxFails
    \/ RmTxOk
    \/ RmBalanceAfterFails
    \/ RmBalanceAfter
    \/ AlBalanceFails
    \/ AlNeedsSwap
    \/ AlInvalidAmounts
    \/ AlAmountsReady
    \/ AlSwapFails
    \/ AlSwapOk
    \/ AlAttemptReadFails
    \/ AlTxFails
    \/ AlTxOpens
    \/ AlTxAddsToExisting
    \/ RpDiscover
    \/ RpDiscoverFails

-----------------------------------------------------------------------------
(* The specifications.                                                      *)

\* A RebalanceService after construction; no executor call and no scheduler running.
Init ==
    /\ EngineInit /\ RetryParked /\ BotParked /\ al = AddParked /\ cr = AmountsParked
    /\ sw = SwapParked /\ rg = RangeParked /\ cy = CyclesParked

Spec == Init /\ [][EngineNext]_vars

\* One call of a retry executor.
InitRetry ==
    /\ RetryInit /\ EngineParked /\ BotParked /\ al = AddParked /\ cr = AmountsParked
    /\ sw = SwapParked /\ rg = RangeParked /\ cy = CyclesParked

SpecRetry == InitRetry /\ [][RetryNext]_vars

\* A CetusRebalanceBot after construction.
InitBot ==
    /\ BotInit /\ EngineParked /\ RetryParked /\ al = AddParked /\ cr = AmountsParked
    /\ sw = SwapParked /\ rg = RangeParked /\ cy = CyclesParked

\* One addLiquidity call with its recovery and fallback paths.
InitAdd ==
    /\ AddInit /\ EngineParked /\ RetryParked /\ BotParked /\ cr = AmountsParked
    /\ sw = SwapParked /\ rg = RangeParked /\ cy = CyclesParked

SpecAdd == InitAdd /\ [][AddNext]_vars

\* One evaluation of the amount computation.
InitAmounts ==
    /\ AmountsInit /\ EngineParked /\ RetryParked /\ BotParked /\ al = AddParked
    /\ sw = SwapParked /\ rg = RangeParked /\ cy = CyclesParked

SpecAmounts == InitAmounts /\ [][AmountsNext]_vars

\* One pass through the balancing-swap step.
InitSwap ==
    /\ SwapInit /\ EngineParked /\ RetryParked /\ BotParked /\ al = AddParked
    /\ cr = AmountsParked /\ rg = RangeParked /\ cy = CyclesParked

SpecSwap == InitSwap /\ [][SwapNext]_vars

\* One evaluation of a range function.
InitRange ==
    /\ RangeInit /\ EngineParked /\ RetryParked /\ BotParked /\ al = AddParked
    /\ cr = AmountsParked /\ sw = SwapParked /\ cy = CyclesParked

SpecRange == InitRange /\ [][RangeNext]_vars

SpecBot == InitBot /\ [][BotNext]_vars

\* Successive cycles of one RebalanceService.
InitCycles ==
    /\ CyclesInit /\ RetryParked /\ BotParked /\ al = AddParked /\ cr = AmountsParked
    /\ sw = SwapParked /\ rg = RangeParked

SpecCycles == InitCycles /\ [][CyclesNext]_vars

-----------------------------------------------------------------------------
(* Properties of the rebalance engine (checked under Spec).                 *)

\* A call has returned.
Returned == pc = "idle" /\ cycles > 0

\* The owner holds no position in the pool.
PoolEmpty == \A id \in PosIds : ~(chain[id].exists /\ chain[id].poolAddress = ThisPool)

\* C1: in a rebalance where the removal step freed no tokens (it failed, was
\* skipped, or the balance deltas were not positive), the step that computes the
\* add-liquidity amounts proposes 0 of both tokens, whatever the wallet holds.
C1_NothingFreedNothingProposed ==
    [][(pc = "al_balances" /\ loc.removedAmountA = 0 /\ loc.removedAmountB = 0)
          => (obs'.proposedA = 0 /\ obs'.proposedB = 0)]_vars

\* C2: after rebalancePosition succeeds by opening a new position, the tracked id
\* names a position of the pool that has the new range and is not the old position.
C2_TracksOpenedPosition ==
    (Returned /\ result.success /\ obs.opened # 0)
        => /\ trackedPositionId \in PosIds
           /\ trackedPositionId # obs.positionId
           /\ chain[trackedPositionId].exists
           /\ chain[trackedPositionId].poolAddress = ThisPool
           /\ chain[trackedPositionId].tickLower = result.newLower
           /\ chain[trackedPositionId].tickUpper = result.newUpper

\* C3: while the owner has no position in the pool, a call submits no transaction
\* and the tracked id stays what the configuration set (unset when not configured).
C3_NothingFromNothing ==
    PoolEmpty => (obs.kinds = {} /\ obs.opened = 0 /\ trackedPositionId = config.positionId)

\* Both public methods were called on an empty pool, with funds in the wallet, and
\* returned.
C3_Witness ==
    /\ Returned /\ obs.readPoolEmpty /\ PoolEmpty
    /\ entry = "rebalancePosition"
    /\ result.error = MsgNoExistingPosition
    /\ balA > 0 /\ balB > 0
    /\ \E id \in PosIds : chain[id].exists

C6_AttemptsUseFreshState ==
    /\ (obs.lastTx.kind = "remove"
            => obs.lastTx.deltaLiquidity = obs.lastTx.freshLiquidity)
    /\ (obs.lastTx.kind = "add" => obs.lastTx.priceReadIn = obs.lastTx.attempt)

\* C7: when the removal step fails, the call does not return there: it is at the
\* add-liquidity step, or has been through it.
C7_RemovalFailureGoesOn ==
    ("removal" \in obs.failures) => (pc = "al_balances" \/ obs.addInvoked)

\* A remove-liquidity transaction failed, and the same call opened the new position.
C7_Witness ==
    /\ Returned /\ "removal" \in obs.failures
    /\ "remove" \in obs.kinds
    /\ obs.addInvoked /\ obs.opened # 0 /\ result.success

\* C8: in a call whose position was read with zero or missing liquidity, no
\* remove-liquidity transaction is submitted and the removal step is not entered.
C8_NoRemovalOfEmptyPosition ==
    (pc \notin {"idle", "cr_read", "rp_read"} /\ ~(loc.position.liquidity > 0))
        => /\ "remove" \notin obs.kinds
           /\ pc \notin {"rm_before", "rm_attempt", "rm_after"}
           /\ obs.removalSkipped

\* A position without a liquidity value went straight to add-liquidity, which
\* opened the new position.
C8_Witness ==
    /\ pc = "rp_discover"
    /\ loc.position.liquidity = LiquidityMissing
    /\ obs.kinds = {"add"}
    /\ obs.opened # 0

-----------------------------------------------------------------------------
(* Property of the scheduler (checked under SpecBot).                       *)

\* C5: at most one check-and-rebalance cycle is in flight at any time.
C5_OneCycleInFlight == Cardinality(InFlight(checks)) <= 1

-----------------------------------------------------------------------------
(* Properties of the retry executors (checked under SpecRetry).             *)

\* The failure just seen left the executor at once (`throw error` in the catch).
ThrownImmediately == rtPc = "thrown" /\ LoopCondition(rtKind, rtAttempt, rtMaxRetries)

\* The executor gave up after the loop (`throw lastError`).
ThrownByExhaustion == rtPc = "thrown" /\ ~LoopCondition(rtKind, rtAttempt, rtMaxRetries)

SaysRetried(msg) ==
    \/ includes(msg, <<"ECONNRESET">>)
    \/ includes(msg, <<"ETIMEDOUT">>)
    \/ includes(msg, <<"is", "not", "available", "for", "consumption">>)
    \/ includes(msg, <<"is", "not", "available", "for", "consumption,">>)

SaysNotRetried(msg) ==
    \/ includes(msg, <<"Insufficient", "balance">>)
    \/ includes(msg, <<"Invalid", "tick", "range">>)

\* A failure thrown on the spot, and when it was the first invocation: one call, no sleep.
FirstFailureThrown ==
    /\ ThrownImmediately
    /\ rtThrown = rtLastFail
    /\ (rtAttempt = 0 => rtCalls = 1 /\ rtSleeps = <<>>)

C10_AttemptsZeroToMaxRetries ==
    /\ rtAttempt <= rtMaxRetries + 1
    /\ (rtPc = "returned" => rtCalls = rtAttempt + 1)
    /\ (ThrownByExhaustion => rtCalls = rtMaxRetries + 1)


\* C11: when every attempt failed with a retryable error, the error thrown is the
\* last attempt's: the same object when an Error was thrown, otherwise an Error made
\* from it that carries its message; never a generic replacement.
C11_LastErrorThrown ==
    ThrownByExhaustion =>
        /\ rtThrown.msg = rtLastFail.msg
        /\ rtThrown.isError
        /\ (rtLastFail.isError => rtThrown = rtLastFail)
        /\ (~rtLastFail.isError => rtThrown.wrapped)

\* retryTransaction gave up after three failed attempts, the last of which threw a
\* value that is not an Error.
C11_Witness ==
    /\ ThrownByExhaustion
    /\ rtKind = "retryTransaction"
    /\ rtCalls = 3
    /\ ~rtLastFail.isError
    /\ rtLastFail.msg = MsgPendingTx
    /\ rtThrown.wrapped

\* C12: an executor sleeps only before a retry, initialDelayMs * 2^(k-1) ms before
\* attempt k; with maxRetries 3 and initialDelayMs 2000 a run in which every attempt
\* fails with a retryable error has slept 2000, 4000 and 8000 ms, in that order.
C12_BackoffSchedule ==
    /\ LET begun == rtCalls + (IF rtPc = "call" THEN 1 ELSE 0)
       IN  Len(rtSleeps) = (IF begun = 0 THEN 0 ELSE begun - 1)
    /\ \A k \in 1..Len(rtSleeps) : rtSleeps[k] = rtInitialDelay * (2 ^ (k - 1))
    /\ (ThrownByExhaustion /\ rtMaxRetries = 3 /\ rtInitialDelay = DefaultInitialDelayMs)
            => rtSleeps = <<2000, 4000, 8000>>


-----------------------------------------------------------------------------
(* Properties of one addLiquidity call (checked under SpecAdd).             *)

\* C14: when the add to a pre-existing position has failed for good, exactly one
\* fallback is made (one new position opened at most, one add on it); a call that
\* was opening a new position makes no fallback; and a failed fallback ends the call.
C14_ExactlyOneFallback ==
    /\ al.fallbacks <= 1
    /\ al.opened <= al.fallbacks
    /\ (al.isOpen => al.fallbacks = 0)
    /\ (al.pc = "fallback" => al.fallbacks = 1 /\ ~al.isOpen)
    /\ (al.pc = "thrown" /\ ~al.isOpen
            => al.fallbacks = 1 /\ al.lastFailure.origin = "fallback")
    /\ (al.lastFailure.origin = "fallback" => al.pc = "thrown")

\* An add to a pre-existing position failed, the recovery swap and retry failed too,
\* and the one fallback attempt failed: the call has ended.
C14_Witness ==
    /\ al.pc = "thrown"
    /\ ~al.isOpen
    /\ al.swaps = 1 /\ al.adds = 3
    /\ al.fallbacks = 1
    /\ al.lastFailure.origin = "fallback"

-----------------------------------------------------------------------------
(* Properties of the amount computation (checked under SpecAmounts).        *)

C20_GasReserveWithheld ==
    cr.pc = "computed" =>
        /\ (cr.isSuiA => cr.amountA <=
                (IF cr.walletA > cr.gasBudget THEN cr.walletA - cr.gasBudget ELSE 0))
        /\ (cr.isSuiB => cr.amountB <=
                (IF cr.walletB > cr.gasBudget THEN cr.walletB - cr.gasBudget ELSE 0))


-----------------------------------------------------------------------------
(* Properties of the tracked position and of dry-run (checked under Spec).   *)

\* The read of a checkAndRebalance cycle succeeded and the cycle decides.
CrDecides ==
    /\ pc = "cr_read"
    /\ pc' # "cr_read"
    /\ "read" \notin obs'.failures

CrTrackedMissing ==
    /\ trackedPositionId # 0
    /\ \A i \in 1..Len(CrPoolPositions) :
           CrPoolPositions[i].positionId # trackedPositionId

\* C16: when trackedPositionId is set and the pool holds no position with that id,
\* checkAndRebalance returns without submitting a transaction, selects no
\* replacement and leaves the tracked id unchanged, whatever the other positions are.
C16_TrackedMissingSkips ==
    [][(CrDecides /\ CrTrackedMissing) =>
            /\ pc' = "idle"
            /\ result' = ReturnNull
            /\ obs'.kinds = {}
            /\ obs'.opened = 0
            /\ ~obs'.addInvoked
            /\ trackedPositionId' = trackedPositionId
            /\ chain' = chain]_vars

\* Position 2 is tracked and does not exist, position 1 of the pool holds liquidity
\* and is out of range: the cycle has returned null and still tracks position 2.
C16_Witness ==
    /\ Returned
    /\ entry = "checkAndRebalance"
    /\ result = ReturnNull
    /\ trackedPositionId = 2
    /\ ~chain[2].exists
    /\ chain[1].exists
    /\ chain[1].poolAddress = ThisPool
    /\ chain[1].liquidity # LiquidityMissing
    /\ chain[1].liquidity > 0
    /\ ~isPositionInRange(chain[1].tickLower, chain[1].tickUpper, tick)
    /\ obs.kinds = {}

\* C17: a cycle that finds no tracked id and a non-empty pool sets the tracked id
\* to a position of the pool with the largest liquidity; a cycle that finds a
\* tracked id does not select again (the id it leaves is the id it found).
C17_AutoTrackMostLiquid ==
    [][CrDecides =>
            /\ (trackedPositionId # 0 => trackedPositionId' = trackedPositionId)
            /\ (trackedPositionId = 0 /\ Len(CrPoolPositions) > 0 =>
                    \E i \in 1..Len(CrPoolPositions) :
                        /\ trackedPositionId' = CrPoolPositions[i].positionId
                        /\ \A j \in 1..Len(CrPoolPositions) :
                               LiquidityOrZero(CrPoolPositions[j])
                                   <= LiquidityOrZero(CrPoolPositions[i]))]_vars

\* Nothing was configured, the pool holds positions 1 and 2, position 2 is the more
\* liquid one: the cycle tracks position 2.
C17_Witness ==
    /\ entry = "checkAndRebalance"
    /\ pc # "cr_read"
    /\ cycles > 0
    /\ config.positionId = 0
    /\ trackedPositionId = 2
    /\ obs.kinds = {}
    /\ chain[1].exists /\ chain[2].exists
    /\ chain[1].poolAddress = ThisPool /\ chain[2].poolAddress = ThisPool
    /\ LiquidityOrZero(chain[1]) < LiquidityOrZero(chain[2])

\* C18: in dry-run mode no call submits a transaction on any path, and a successful
\* result carries no transaction digest: at most the old and the intended new range.
C18_DryRunSubmitsNothing ==
    config.dryRun =>
        /\ obs.kinds = {}
        /\ obs.lastTx = NoTx
        /\ obs.opened = 0
        /\ ~obs.addInvoked
        /\ pc \in {"idle", "cr_read", "rp_read"}
        /\ (result.kind = "value" => ~result.hasDigest)

\* A dry-run call found a position to move and returned the old and the new range.
C18_Witness ==
    /\ Returned
    /\ config.dryRun
    /\ result.kind = "value"
    /\ result.success
    /\ result.hasRanges
    /\ ~result.hasDigest
    /\ result.newLower # result.oldLower
    /\ obs.kinds = {}

-----------------------------------------------------------------------------
(* Properties of the balancing-swap step (checked under SpecSwap).           *)

Min(a, b) == IF a <= b THEN a ELSE b
AtLeastZero(a) == IF a > 0 THEN a ELSE 0

\* preSwap + swapDelta of each coin, from the recorded wallet balances.
SwAdjustedA == sw.amountA + (sw.afterA - sw.walletA)
SwAdjustedB == sw.amountB + (sw.afterB - sw.walletB)

\* C21 as stated: after a balancing swap each new amount is preSwap + swapDelta,
\* clamped to safeBalance of the post-swap wallet balance (native or not) and floored
\* at 0, and so never exceeds the post-swap wallet balance.
C21_ClampedToSafeBalance ==
    sw.pc = "swapped" =>
        /\ sw.newA = AtLeastZero(Min(SwAdjustedA,
                                     safeBalance(sw.isSuiA, sw.afterA, sw.gasBudget)))
        /\ sw.newB = AtLeastZero(Min(SwAdjustedB,
                                     safeBalance(sw.isSuiB, sw.afterB, sw.gasBudget)))
        /\ sw.newA <= sw.afterA
        /\ sw.newB <= sw.afterB

\* C21 (amended): after a balancing swap the new amount of a coin that is SUI is
\* preSwap + swapDelta capped at max(0, post-swap balance - gas reserve); the new
\* amount of any other coin is preSwap + swapDelta without a cap; both are floored
\* at 0.  An amount that did not exceed the pre-swap wallet balance does not exceed
\* the post-swap wallet balance.
C21_PostSwapAmounts ==
    sw.pc = "swapped" =>
        /\ sw.newA = (IF sw.isSuiA
                      THEN AtLeastZero(Min(SwAdjustedA,
                                           AtLeastZero(sw.afterA - sw.gasBudget)))
                      ELSE AtLeastZero(SwAdjustedA))
        /\ sw.newB = (IF sw.isSuiB
                      THEN AtLeastZero(Min(SwAdjustedB,
                                           AtLeastZero(sw.afterB - sw.gasBudget)))
                      ELSE AtLeastZero(SwAdjustedB))
        /\ (sw.amountA <= sw.walletA => sw.newA <= sw.afterA)
        /\ (sw.amountB <= sw.walletB => sw.newB <= sw.afterB)

\* Coin A is SUI; 1 of 2 B was sold for 1 A; the wallet then holds no more SUI than
\* the gas reserve: nothing of A is proposed although preSwap + swapDelta is 1.
C21_Witness ==
    /\ sw.pc = "swapped"
    /\ sw.isSuiA /\ ~sw.aToB
    /\ sw.amountA = 0 /\ sw.amountB = 2
    /\ sw.afterA = 1 /\ sw.gasBudget = 1
    /\ SwAdjustedA = 1
    /\ sw.newA = 0 /\ sw.newB = 1

\* C22: a balancing swap is decided iff exactly one of the two proposed amounts is 0
\* and the other, X, is > 1; its amount is floor(X/2) and it sells the held coin
\* (A to B when A is held, B to A when B is held); otherwise no swap is made.
C22_SwapDecision ==
    sw.pc \notin {"parked", "proposed"} =>
        LET onlyA == sw.amountA > 1 /\ sw.amountB = 0
            onlyB == sw.amountB > 1 /\ sw.amountA = 0
        IN  /\ sw.needsSwap <=> (onlyA \/ onlyB)
            /\ (sw.needsSwap <=> sw.pc \in {"swapping", "swapped", "swap_failed"})
            /\ (onlyA => sw.aToB /\ 2 * sw.swapAmount <= sw.amountA
                                 /\ sw.amountA < 2 * sw.swapAmount + 2)
            /\ (onlyB => ~sw.aToB /\ 2 * sw.swapAmount <= sw.amountB
                                  /\ sw.amountB < 2 * sw.swapAmount + 2)
            /\ (~sw.needsSwap => sw.swapAmount = 0 /\ sw.newA = sw.amountA
                                                   /\ sw.newB = sw.amountB)

\* 3 of B and nothing of A are proposed: 1 of B is being sold for A.
C22_Witness ==
    /\ sw.pc = "swapping"
    /\ sw.amountA = 0 /\ sw.amountB = 3
    /\ sw.needsSwap /\ ~sw.aToB /\ sw.swapAmount = 1

-----------------------------------------------------------------------------
(* Properties of the range functions (checked under SpecRange).              *)

RangeComputed == rg.pc = "computed" /\ rg.fn = "calculateOptimalRange"

C24_BoundsAligned ==
    RangeComputed =>
        /\ rg.lower % rg.tickSpacing = 0
        /\ rg.upper % rg.tickSpacing = 0

\* A preserved width of 3 around tick -4 at spacing 3: [-6, 0], not [-5, -2].
C24_Witness ==
    /\ RangeComputed
    /\ rg.currentTick = -4 /\ rg.tickSpacing = 3 /\ rg.preserveRangeWidth = 3
    /\ rg.lower = -6 /\ rg.upper = 0

\* C25 as stated: with a preserved width W > 0 the range is at least W wide and its
\* width differs from W by at most one tick spacing.
C25_WidthWithinOneSpacing ==
    (RangeComputed /\ rg.preserveRangeWidth > 0) =>
        /\ rg.upper - rg.lower >= rg.preserveRangeWidth
        /\ Abs((rg.upper - rg.lower) - rg.preserveRangeWidth) <= rg.tickSpacing

\* C25 (amended): with a preserved width W > 0 (taking precedence over a configured
\* width) the range holds [currentTick - floor(W/2), currentTick + ceil(W/2)], is at
\* least W wide and less than W + 2 tick spacings wide; when W is a multiple of the
\* tick spacing its width exceeds W by at most one tick spacing.
C25_PreservedWidth ==
    (RangeComputed /\ rg.preserveRangeWidth > 0) =>
        LET W == rg.preserveRangeWidth
            width == rg.upper - rg.lower
        IN  /\ rg.lower <= rg.currentTick - (W \div 2)
            /\ rg.upper >= rg.currentTick + (W - (W \div 2))
            /\ width >= W
            /\ width < W + 2 * rg.tickSpacing
            /\ (W % rg.tickSpacing = 0 => width - W <= rg.tickSpacing)

\* A preserved width of 2 around tick 0 at spacing 3 gives [-3, 3]: 4 wider than 2.
C25_Witness ==
    /\ RangeComputed
    /\ rg.preserveRangeWidth = 2 /\ rg.tickSpacing = 3 /\ rg.currentTick = 0
    /\ rg.rangeWidth = MaxWidth
    /\ rg.lower = -3 /\ rg.upper = 3

-----------------------------------------------------------------------------
(* Properties of rebalancePosition's decisions and of the add step (checked  *)
(* under Spec).                                                              *)

\* The reads of a rebalancePosition call succeeded and the call got as far as
\* computing the new range for its candidate.
RpRangeComputed ==
    /\ pc = "rp_read"
    /\ pc' # "rp_read"
    /\ "read" \notin obs'.failures
    /\ Len(RpPoolPositions) > 0
    /\ Len(RpNeedingRebalance) > 0
    /\ (RpHasLiquidityToMove \/ Len(RpInRangePositions) = 0)

RpSkippedAsUnchanged ==
    /\ pc' = "idle"
    /\ result' = SuccessWithRanges(RpPosition, RpRange.lower, RpRange.upper, FALSE)
    /\ obs'.kinds = {}
    /\ trackedPositionId' = trackedPositionId
    /\ chain' = chain /\ balA' = balA /\ balB' = balB

\* C27 as stated: when both bounds of the new range are within one tick spacing of
\* the old bounds (a distance of one tick spacing included), no transaction is
\* submitted, the tracked id stays and success is returned with both ranges.
C27_WithinOneSpacingSkips ==
    [][(/\ RpRangeComputed
        /\ Abs(RpPosition.tickLower - RpRange.lower) <= TickSpacing
        /\ Abs(RpPosition.tickUpper - RpRange.upper) <= TickSpacing)
            => RpSkippedAsUnchanged]_vars

\* C27 (amended): when both bounds of the new range are less than one tick spacing
\* away from the old bounds, no transaction is submitted, the tracked id stays and
\* success is returned with both ranges and no digest; a range that moved by a whole
\* tick spacing on a bound is rebalanced (or, in dry-run, reported).
C27_UnchangedRangeSkips ==
    [][RpRangeComputed =>
        IF /\ Abs(RpPosition.tickLower - RpRange.lower) < TickSpacing
           /\ Abs(RpPosition.tickUpper - RpRange.upper) < TickSpacing
        THEN RpSkippedAsUnchanged
        ELSE \/ pc' \in {"rm_before", "al_balances"}
             \/ config.dryRun /\ pc' = "idle"]_vars

\* A call outside dry-run returned the same range as old and new, without a digest
\* and without a transaction.
C27_Witness ==
    /\ Returned
    /\ ~config.dryRun
    /\ result.success /\ result.hasRanges /\ ~result.hasDigest
    /\ result.oldLower = result.newLower /\ result.oldUpper = result.newUpper
    /\ obs.kinds = {}

RpTrackedFound ==
    /\ trackedPositionId # 0
    /\ chain[trackedPositionId].exists
    /\ chain[trackedPositionId].poolAddress = ThisPool

\* C28: when a position is tracked, only it is a candidate; if it needs rebalancing,
\* holds no liquidity and some position of the pool does not need rebalancing, the
\* call is a no-op: no transaction, success returned.
C28_TrackedOnlyCandidate ==
    [][(pc = "rp_read" /\ pc' # "rp_read" /\ "read" \notin obs'.failures
            /\ RpTrackedFound) =>
        /\ (pc' \in {"rm_before", "al_balances"} =>
                loc'.position.positionId = trackedPositionId)
        /\ (result'.hasRanges => /\ result'.oldLower = chain[trackedPositionId].tickLower
                                 /\ result'.oldUpper = chain[trackedPositionId].tickUpper)
        /\ ((/\ shouldRebalance(chain[trackedPositionId], tick)
             /\ LiquidityOrZero(chain[trackedPositionId]) = 0
             /\ \E id \in PosIds : /\ chain[id].exists
                                   /\ chain[id].poolAddress = ThisPool
                                   /\ ~shouldRebalance(chain[id], tick))
                => /\ pc' = "idle"
                   /\ result' = Success
                   /\ obs'.kinds = {}
                   /\ chain' = chain
                   /\ trackedPositionId' = trackedPositionId)]_vars

\* Position 1 is tracked, empty and needs rebalancing; position 2 is in range: the
\* call returned success and submitted nothing.
C28_Witness ==
    /\ Returned
    /\ trackedPositionId = 1
    /\ chain[1].exists /\ chain[1].poolAddress = ThisPool
    /\ LiquidityOrZero(chain[1]) = 0
    /\ shouldRebalance(chain[1], tick)
    /\ chain[2].exists /\ chain[2].poolAddress = ThisPool
    /\ ~shouldRebalance(chain[2], tick)
    /\ result = Success
    /\ obs.kinds = {}

\* The ids of the positions that exist.
ExistingIds(ch) == {id \in PosIds : ch[id].exists}

AlAfterSwapA ==
    IF pc = "al_balances" \/ "swap" \in obs'.failures
    THEN (IF pc = "al_balances" THEN AlProposed.a ELSE loc.amountA)
    ELSE PostSwapAmount(loc.amountA, balA' - balA, config.isSuiA, balA', config.gasBudget)

AlAfterSwapB ==
    IF pc = "al_balances" \/ "swap" \in obs'.failures
    THEN (IF pc = "al_balances" THEN AlProposed.b ELSE loc.amountB)
    ELSE PostSwapAmount(loc.amountB, balB' - balB, config.isSuiB, balB', config.gasBudget)

\* The swap step is over: validation follows (a failed balance read at the top of
\* addLiquidity ends the call before any amount exists and is not such a step).
AlSwapStepOver ==
    /\ pc \in {"al_balances", "al_swap"}
    /\ pc' \in {"al_attempt", "idle"}
    /\ (pc = "al_balances" /\ pc' = "idle" =>
            result'.error \in {MsgNoTokens, MsgInsufficientToAdd})

\* C30: after the swap step of addLiquidity, if both amounts are 0 the call fails and
\* no add-liquidity transaction is submitted; if exactly one amount is 0 the engine
\* goes on to submit the add-liquidity transaction; the balancing swap is never
\* attempted a second time.
C30_ValidationAfterSwap ==
    [][/\ (AlSwapStepOver =>
            /\ (AlAfterSwapA = 0 /\ AlAfterSwapB = 0 =>
                    /\ pc' = "idle"
                    /\ ~result'.success
                    /\ "add" \notin obs'.kinds)
            /\ ((AlAfterSwapA = 0) # (AlAfterSwapB = 0) => pc' = "al_attempt"))
       /\ (obs'.lastTx # obs.lastTx /\ obs'.lastTx.kind = "swap" => "swap" \notin obs.kinds)
       /\ (pc' = "al_swap" /\ pc # "al_swap" => pc = "al_balances")]_vars

-----------------------------------------------------------------------------
(* The order of the transactions, the freed amounts, the tracked position.  *)

\* The step submits a transaction of this kind.
TxSubmitted(kind) == obs'.lastTx # obs.lastTx /\ obs'.lastTx.kind = kind

RemovalPcs == {"rm_before", "rm_attempt", "rm_after"}
AddPcs == {"al_balances", "al_swap", "al_attempt", "rp_discover"}

\* C31: within one rebalancePosition call the transactions go remove-liquidity (all
\* its attempts), then at most one balancing swap, then add-liquidity: a swap or an
\* add is submitted only after the removal step has ended, and no remove-liquidity
\* is submitted after a swap or an add.
C31_RemoveThenSwapThenAdd ==
    [][/\ (TxSubmitted("remove") =>
            /\ pc = "rm_attempt"
            /\ obs.kinds \subseteq {"remove"}
            /\ ~obs.addInvoked)
       /\ (TxSubmitted("swap") =>
            /\ pc = "al_swap"
            /\ obs.kinds \subseteq {"remove"})
       /\ (TxSubmitted("add") =>
            /\ pc = "al_attempt"
            /\ obs.lastTx.kind \in {"none", "remove", "swap", "add"}
            /\ (obs.lastTx.kind = "remove" => obs.lastTx.ok \/ "removal" \in obs.failures))
       /\ (pc \in AddPcs => pc' \in AddPcs \cup {"idle"})
       /\ (pc' \in AddPcs /\ pc \notin AddPcs =>
            /\ pc \in RemovalPcs \cup {"rp_read"}
            /\ (pc = "rp_read" => obs'.removalSkipped /\ obs'.kinds = {})
            /\ (pc = "rm_after" => obs.lastTx.kind = "remove" /\ obs.lastTx.ok)
            /\ (pc \in {"rm_before", "rm_attempt"} => "removal" \in obs'.failures))]_vars

\* A call that removed, swapped and added, in that order, and succeeded.
C31_Witness ==
    /\ Returned
    /\ result.success
    /\ obs.kinds = {"remove", "swap", "add"}
    /\ obs.lastTx.kind = "add" /\ obs.lastTx.ok

\* C32: the freed amount of each coin that the add step uses is the wallet balance
\* read after the removal minus the balance read before it, 0 (absent) when that
\* difference is zero or negative; it is never negative.
C32_FreedAmountIsBalanceDelta ==
    [][/\ (pc = "rm_after" /\ pc' = "al_balances" /\ obs' = obs =>
            /\ loc'.removedAmountA = AtLeastZero(balA - loc.balanceBeforeA)
            /\ loc'.removedAmountB = AtLeastZero(balB - loc.balanceBeforeB))
       /\ (pc = "rm_after" /\ pc' = "al_balances" /\ obs' # obs =>
            loc'.removedAmountA = 0 /\ loc'.removedAmountB = 0)
       /\ loc'.removedAmountA >= 0 /\ loc'.removedAmountB >= 0
       /\ (pc \in AddPcs /\ pc' \in AddPcs =>
            /\ loc'.removedAmountA = loc.removedAmountA
            /\ loc'.removedAmountB = loc.removedAmountB)
       /\ (pc = "al_balances" /\ pc' \in {"al_swap", "al_attempt"} =>
            /\ obs'.proposedA = ProposedAmounts(config, loc.removedAmountA,
                                                loc.removedAmountB, balA, balB).a
            /\ obs'.proposedB = ProposedAmounts(config, loc.removedAmountA,
                                                loc.removedAmountB, balA, balB).b)]_vars

\* Coin A is SUI and the removal paid out coin B only: the gas made the balance of A
\* fall, and the freed amount of A is 0 while that of B is positive.
C32_Witness ==
    /\ pc = "al_balances"
    /\ config.isSuiA
    /\ obs.lastTx.kind = "remove" /\ obs.lastTx.ok
    /\ "removal" \notin obs.failures
    /\ loc.removedAmountA = 0
    /\ loc.removedAmountB > 0

\* C33: after a rebalance that succeeded by adding to a position that already
\* existed at the target range, trackedPositionId is the id of that position.
C33_TopUpIsTracked ==
    [][(/\ pc = "al_attempt"
        /\ pc' = "idle"
        /\ result'.success
        /\ obs'.lastTx.kind = "add" /\ obs'.lastTx.ok /\ ~obs'.lastTx.isOpen)
            => trackedPositionId' = obs'.lastTx.posId]_vars

\* C34: in a cycle started by checkAndRebalance every remove-liquidity transaction
\* targets the tracked position, and the removal is begun only for a tracked position
\* that satisfies shouldRebalance against the pool state read by rebalancePosition.
C34_OnlyTrackedPositionRemoved ==
    [][entry = "checkAndRebalance" =>
        /\ (TxSubmitted("remove") =>
                /\ trackedPositionId # 0
                /\ obs'.lastTx.posId = trackedPositionId
                /\ obs'.positionId = trackedPositionId)
        /\ (pc = "rp_read" /\ pc' = "rm_before" =>
                /\ trackedPositionId # 0
                /\ loc'.position.positionId = trackedPositionId
                /\ loc'.position.tickLower = chain[trackedPositionId].tickLower
                /\ loc'.position.tickUpper = chain[trackedPositionId].tickUpper
                /\ shouldRebalance(chain[trackedPositionId], tick))
        /\ (pc \in RemovalPcs =>
                /\ trackedPositionId' = trackedPositionId
                /\ loc'.position.positionId \in {0, loc.position.positionId})
        /\ \A id \in PosIds :
                (chain[id].exists /\ chain'[id].liquidity < chain[id].liquidity
                    /\ pc # "idle" /\ pc' # pc)
                    => id = trackedPositionId]_vars

\* A cycle of checkAndRebalance removed the liquidity of the tracked position 2 while
\* position 1, in the same pool, kept its own.
C34_Witness ==
    /\ entry = "checkAndRebalance"
    /\ trackedPositionId = 2
    /\ obs.lastTx.kind = "remove" /\ obs.lastTx.ok /\ obs.lastTx.posId = 2
    /\ chain[1].exists /\ chain[1].poolAddress = ThisPool /\ chain[1].liquidity > 0
    /\ chain[2].liquidity = 0

\* C35: trackedPositionId changes in two ways only: the auto-selection of
\* checkAndRebalance when it was unset, and the discovery of the position that a
\* successful add-liquidity opened; once set it is never unset.
C35_TrackedIdChanges ==
    [][/\ (trackedPositionId' # trackedPositionId =>
            \/ /\ pc = "cr_read"
               /\ trackedPositionId = 0
               /\ Len(CrPoolPositions) > 0
               /\ trackedPositionId' = MostLiquid(CrPoolPositions).positionId
            \/ /\ pc = "rp_discover"
               /\ obs.lastTx.kind = "add" /\ obs.lastTx.ok /\ obs.lastTx.isOpen
               /\ "discovery" \notin obs'.failures
               /\ result'.success
               /\ trackedPositionId' = obs.opened)
       /\ (trackedPositionId # 0 => trackedPositionId' # 0)
       /\ (pc' = "idle" /\ pc # "idle" /\ pc # "cr_read"
                /\ (~result'.success \/ ~result'.hasDigest \/ "discovery" \in obs'.failures)
            => trackedPositionId' = trackedPositionId)]_vars

\* Position 2 was tracked; the rebalance opened position 3 and now tracks it.
C35_Witness ==
    /\ Returned
    /\ result.success /\ result.hasDigest
    /\ obs.positionId = 2
    /\ obs.opened = 3
    /\ trackedPositionId = 3

\* C38: for a position whose range does not hold the current tick (its bounds being
\* multiples of the tick spacing) the unchanged-range return is never taken: some
\* bound of the new range is a whole tick spacing or more away, and outside dry run
\* the call that has chosen such a position goes on to the removal or the add step.
C38_OutOfRangeNeverSkipped ==
    [][(/\ RpRangeComputed
        /\ RpPosition.tickLower % TickSpacing = 0
        /\ RpPosition.tickUpper % TickSpacing = 0
        /\ ~isPositionInRange(RpPosition.tickLower, RpPosition.tickUpper, tick))
            => /\ \/ Abs(RpPosition.tickLower - RpRange.lower) >= TickSpacing
                  \/ Abs(RpPosition.tickUpper - RpRange.upper) >= TickSpacing
               /\ (result'.hasRanges => config.dryRun)
               /\ (~config.dryRun =>
                      /\ pc' \in {"rm_before", "al_balances"}
                      /\ loc'.position = RpPosition
                      /\ loc'.lower = RpRange.lower /\ loc'.upper = RpRange.upper)]_vars

\* An out-of-range position was chosen and the call went on, past the
\* unchanged-range test, to its removal.
C38_Witness ==
    /\ pc = "rm_before"
    /\ loc.position.positionId # 0
    /\ ~isPositionInRange(loc.position.tickLower, loc.position.tickUpper, tick)
    /\ (loc.lower # loc.position.tickLower \/ loc.upper # loc.position.tickUpper)

-----------------------------------------------------------------------------
(* Termination of a call.                                                   *)

\* The steps of a running call (the callers and the environment left out).
CallStep ==
    \/ CrReadFails \/ CrTrackedNotFound \/ CrNoPositions \/ CrNoActionNeeded
    \/ CrRebalanceNeeded
    \/ RpReadFails \/ RpNoPositions \/ RpNothingNeedsRebalance \/ RpEmptyAndInRangeExists
    \/ RpRangeUnchanged \/ RpDryRun \/ RpBeginRemoval \/ RpSkipRemoval
    \/ RmBalanceBeforeFails \/ RmBalanceBefore \/ RmAttemptReadFails \/ RmTxFails
    \/ RmTxOk \/ RmBalanceAfterFails \/ RmBalanceAfter
    \/ AlBalanceFails \/ AlNeedsSwap \/ AlInvalidAmounts \/ AlAmountsReady
    \/ AlSwapFails \/ AlSwapOk
    \/ AlAttemptReadFails \/ AlTxFails \/ AlTxOpens \/ AlTxAddsToExisting
    \/ RpDiscover \/ RpDiscoverFails

\* How far a call has come: its position in the method, then the attempt number of
\* the retry loop it is in.
PcOrder ==
    <<"cr_read", "rp_read", "rm_before", "rm_attempt", "rm_after", "al_balances",
      "al_swap", "al_attempt", "rp_discover", "idle">>

PcRank(p) == CHOOSE i \in 1..Len(PcOrder) : PcOrder[i] = p

CallProgress(p, l) ==
    PcRank(p) * (TxMaxRetries + 1)
        + (IF p \in {"rm_attempt", "al_attempt"} THEN l.attempt ELSE 0)

\* C37: every call terminates after a bounded number of submissions: each step of
\* a running call moves it forward (no step is repeated without bound) and a step
\* is always possible, the remove-liquidity and the add-liquidity transactions are
\* each attempted at most maxRetries times, and the balancing swap at most once.
C37_BoundedSubmissions ==
    [][/\ (pc # "idle" => ENABLED CallStep)
       /\ (pc # "idle" /\ <<pc, loc, obs, result, trackedPositionId>>'
                            # <<pc, loc, obs, result, trackedPositionId>> =>
                /\ CallProgress(pc', loc') > CallProgress(pc, loc)
                /\ CallProgress(pc', loc') <= CallProgress("idle", NoLocals))
       /\ (pc \in {"rm_attempt", "al_attempt"} => loc.attempt < TxMaxRetries)
       /\ (TxSubmitted("remove") =>
                /\ obs'.lastTx.attempt < TxMaxRetries
                /\ (obs.lastTx.kind = "remove" => obs'.lastTx.attempt > obs.lastTx.attempt))
       /\ (TxSubmitted("add") =>
                /\ obs'.lastTx.attempt < TxMaxRetries
                /\ (obs.lastTx.kind = "add" => obs'.lastTx.attempt > obs.lastTx.attempt))
       /\ (TxSubmitted("swap") => "swap" \notin obs.kinds)]_vars

\* The remove-liquidity and the add-liquidity transactions failed on every attempt,
\* and the call has returned.
C37_Witness ==
    /\ Returned
    /\ {"removal", "add"} \subseteq obs.failures
    /\ obs.kinds = {"remove", "add"}
    /\ obs.lastTx.kind = "add" /\ ~obs.lastTx.ok
    /\ obs.lastTx.attempt = TxMaxRetries - 1

-----------------------------------------------------------------------------
(* The bot's timer.                                                         *)

\* The step starts a check cycle from the interval timer.
TimerCycleStarts ==
    \E k \in CheckSlots :
        /\ checks[k].phase = "free"
        /\ checks'[k].phase # "free"
        /\ checks'[k].by = "timer"

\* C40: at most one periodic timer exists at any time, and once stop() has returned
\* (the bot is not running) the timer starts no further check cycle, also when
\* stop() or start() was called while an earlier start() was still awaiting its
\* setup validation or its initial check.
C40_OneTimerNoneAfterStop ==
    [][/\ Cardinality(timers') <= 1
       /\ (TimerCycleStarts => isRunning)
       /\ (~isRunning' /\ startPc' = "idle" => timers' = {})]_vars

-----------------------------------------------------------------------------
(* Properties of successive cycles (checked under SpecCycles).              *)

Width(p) == p.tickUpper - p.tickLower

\* The tick is inside the range, at least num/den of its width from both bounds.
AwayFromEdges(p, t, num, den) ==
    /\ isPositionInRange(p.tickLower, p.tickUpper, t)
    /\ (t - p.tickLower) * den >= num * Width(p)
    /\ (p.tickUpper - t) * den >= num * Width(p)

\* The range rebalancePosition would compute for a tracked position.
RangeFor(p, t) == calculateOptimalRange(t, TickSpacing, Width(p), config.rangeWidth)

\* C36: at a constant price, the cycle that follows a cycle which rebalanced and
\* tracked the position it opened submits no transaction.  The position such a
\* cycle leaves tracked holds the tick a quarter of its width or more from both
\* bounds (so no threshold up to 0.25 flags it), or is at the very range that would
\* be computed for it again.
C36_QuiescentAtConstantPrice ==
    /\ (cycles > MaxCycles /\ cy.rebalanced /\ cy.trackedOpened /\ ~cy.priceMoved =>
            /\ obs.kinds = {}
            /\ ~obs.addInvoked
            /\ obs.opened = 0
            /\ trackedPositionId = cy.opened)
    /\ (pc = "idle" /\ result.success /\ result.hasDigest /\ obs.opened # 0
            /\ trackedPositionId = obs.opened =>
            \/ AwayFromEdges(chain[trackedPositionId], tick, 1, 4)
            \/ /\ RangeFor(chain[trackedPositionId], tick).lower
                    = chain[trackedPositionId].tickLower
               /\ RangeFor(chain[trackedPositionId], tick).upper
                    = chain[trackedPositionId].tickUpper)

\* The first cycle rebalanced and tracked the position it opened; the second cycle,
\* at the same price, has returned without submitting anything.
C36_Witness ==
    /\ cycles = MaxCycleCalls
    /\ pc = "idle"
    /\ cy.rebalanced /\ cy.trackedOpened /\ ~cy.priceMoved
    /\ trackedPositionId = cy.opened
    /\ result.kind = "null"
    /\ obs.kinds = {}

=============================================================================
